---- MODULE Spec2Model ----
(***************************************************************************)
(* Model of the PullPilot updater script (updater.sh): one invocation of   *)
(* the script followed statement by statement, the Docker/Compose/mail      *)
(* tools as nondeterministic environment, and a second invocation of the    *)
(* same script on the same lock file reduced to its lock protocol.          *)
(* Parts of the script that work on text (the project list file, the scan *)
(* of BASE_DIR, html_escape) and parts of the web panel (logs requests,    *)
(* status banner, login form) have specifications of their own.            *)
(***************************************************************************)
EXTENDS Integers, Sequences, FiniteSets, TLC

\* ---------------------------------------------------------------------
\* Bounds of the model
\* ---------------------------------------------------------------------
MaxProjects == 2
MaxContainers == 2
\* Lines of a project list file, and characters of one line.
MaxLines == 2
MaxLineLen == 2
\* Characters of a project display name.
MaxNameLen == 2
\* Depth of the directory tree below BASE_DIR, entries of EXCLUDE_PATTERNS.
MaxDepth == 2
MaxPatterns == 2
\* Calls of fetchLogs in one session of the panel.
MaxRequests == 3
\* Timed status messages shown in one banner, and advances of the clock.
MaxShows == 2
MaxAdvances == 4
\* Submissions of the login form in one session of the panel.
MaxLogins == 2

\* ---------------------------------------------------------------------
\* Small universes for the inputs
\* ---------------------------------------------------------------------
\* Directories PROJECT_DIRS can list; two share the base name "app".
Dirs == {"/srv/a/app", "/srv/b/app", "/srv/empty"}

\* Files present in each directory.
FilesIn(dir) ==
  IF dir = "/srv/a/app" THEN {"compose.yml", "README.md"}
  ELSE IF dir = "/srv/b/app" THEN {"docker-compose.yml", "compose.yaml"}
  ELSE {"notes.txt"}

Services == {"web", "db"}

\* Comparison key of a service: "" when it has no running container.
Keys == {"", "img1", "img2"}

PullPolicies == {"always", "missing", "never"}

\* Exit statuses an external tool can return.
ToolStatuses == {0, 1, 75}

HealthStates == {"none", "healthy", "unhealthy"}
RunStates == {"running", "exited"}
Containers == [hc : HealthStates, status : RunStates]

RECURSIVE SeqsUpTo(_, _)
SeqsUpTo(S, n) ==
  IF n = 0 THEN {<<>>}
  ELSE LET shorter == SeqsUpTo(S, n - 1)
       IN  shorter \cup {Append(s, x) : s \in {t \in shorter : Len(t) = n - 1}, x \in S}

\* What discovery can yield: up to MaxProjects directories, each listed once.
DirLists ==
  {l \in SeqsUpTo(Dirs, MaxProjects) : \A i, j \in 1..Len(l) : l[i] = l[j] => i = j}

\* What an explicit list file with a repeated line yields: every line is
\* taken as it comes, so the directory is listed more than once.
RepeatingDirLists == SeqsUpTo(Dirs, MaxProjects) \ DirLists

ContainerLists == SeqsUpTo(Containers, MaxContainers)

AttachPolicies == {"changes", "always", "never"}

Range(s) == {s[i] : i \in 1..Len(s)}

\* A snapshot maps the services it lists to their comparison key.
EmptySnap == <<>>
FullSnaps == [Services -> Keys]

VARIABLES
  conf_file,                     \* what CONF_FILE names: lines 55-60
  main_out,                      \* messages written outside the project logs
  list_unreadable,               \* COMPOSE_PROJECTS_FILE was set and not readable
  DRY_RUN,                       \* configuration, line 77
  PULL_POLICY,                   \* configuration, line 75
  ATTACH_LOGS_ON,                \* configuration, line 73; "" until drawn
  COMPOSE_SUPPORTS_PULL_POLICY,  \* lines 137-180
  pc,                            \* position of the invocation in the script
  exit_status,                   \* "none" while running, then the status
  lock,                          \* holder of the flock on LOCK_FILE
  rival,                         \* the other invocation on the same lock
  PROJECT_DIRS,                  \* line 393
  idx,                           \* position of the for loop of line 445
  project_order,                 \* line 441
  project_display_names,         \* line 439
  before,                        \* line 465
  after,                         \* line 526
  changed,                       \* line 541
  changed_projects,              \* line 435
  failed_projects,               \* line 436
  plog,                          \* what each pass of the loop wrote to its log
  now,                           \* the clock, in seconds since the start
  proj_logs,                     \* line 437
  project_logs,                  \* line 438
  compose_files,                 \* compose_file of each pass, line 446
  RUN_CMDS,                      \* line 202
  executed,                      \* external commands really executed
  dry_logged,                    \* commands announced by "(dry-run) ..."
  suppressed,                    \* mutating commands skipped for DRY_RUN
  step_failed,                   \* step of the project in hand whose tool failed
  sick,                          \* projects with a container failing the health requirement
  ps_q,                          \* per project: what `ps -q` gave ("failed", "empty", "listed")
  diffed,                        \* projects whose snapshots were found to differ
  maint_failed,                  \* maintenance steps whose tool failed
  display_name_counts,           \* line 583
  changed_count,                 \* line 620
  failed_count,                  \* line 621
  attachments,                   \* line 655
  attached_projects,             \* line 656
  changed_project_labels,        \* line 603
  failed_project_labels,         \* line 609
  \* Reading of the project list file, lines 396-401
  list_lines,                    \* the lines of COMPOSE_PROJECTS_FILE
  list_terminated,               \* the last line ends with a newline
  line_no,                       \* the line `read` is at
  listed_dirs,                   \* PROJECT_DIRS as the loop of line 396 builds it
  list_pc,                       \* "idle", "reading" or "done"
  \* The project lists of the two summaries, lines 615-652
  patsub_replacement,            \* shell option of the bash that runs the script
  changed_display,               \* line 615
  changed_display_html,          \* line 617
  plain_summary,                 \* line 632, the list of projects in it
  html_summary,                  \* line 642, the list of projects in it
  text_pc,                       \* "idle", "escape", "summaries" or "done"
  \* The scan of BASE_DIR, lines 406-431
  BASE_DIR,                      \* line 63, as a sequence of characters
  EXCLUDE_PATTERNS,              \* lines 79-80
  find_todo,                     \* directories `find` has still to visit
  scanned_dirs,                  \* PROJECT_DIRS as the loop of line 427 builds it
  scan_pc,                       \* "idle", "scanning" or "done"
  \* The logs view of the panel, createLogsRequestManager and fetchLogs
  abort_supported,               \* typeof AbortController !== "undefined"
  currentId,                     \* createLogsRequestManager
  activeController,              \* createLogsRequestManager; 0 for null
  requests,                      \* the calls of fetchLogs made so far
  rendered,                      \* id of the request whose answer the view shows
  stale_rendered,                \* an answer was shown that was not the latest request's
  \* The status banner of the schedule form, scheduleStatus
  clock,                         \* milliseconds since the panel was loaded
  advances,                      \* advances of the clock so far
  timers,                        \* due times of the pending setTimeout callbacks
  status_hidden,                 \* scheduleStatus.hidden
  status_text,                   \* the message in scheduleStatus, "" for none
  shown_at,                      \* when the message in the banner was shown
  shows,                         \* timed messages shown so far
  hidden_at,                     \* due time of the callback that hid the banner last
  \* The login form of the panel and the token storage
  localStorage,                  \* the item pullpilot.bearerToken, "none" when absent
  sessionStorage,                \* the item pullpilot.bearerToken, "none" when absent
  local_works,                   \* localStorage can be written and cleared
  memoryToken,                   \* "none" for null
  submitted,                     \* tokenInput.value of the submission in hand
  shouldPersist,                 \* rememberCheckbox.checked of that submission
  auth_response,                 \* the answer of auth-check to it, "none" while awaited
  login_status,                  \* the message of the login form
  logins,                        \* submissions sent to the server so far
  login_pc,                      \* "idle", "form" or "verifying"
  \* The entrypoint of the image: the copy of the default configuration
  DEFAULT_CONFIG_DIR,            \* the files under the defaults directory, as paths
  CONFIG_DIR,                    \* the files under the configuration directory: path -> content
  config_subdirs,                \* the directories at the top of the configuration directory
  default_files,                 \* the entries of the glob the for loop has still to visit
  config_before,                 \* the files of the configuration directory when the container started
  starts,                        \* container starts so far
  sync_pc,                       \* "idle", "start", "loop" or "started"
  \* The token storage of token-storage.js over the two storages of the window
  storages,                      \* provider id -> the item pullpilot.bearerToken, "none" when absent
  throwOnSet,                    \* the providers whose setItem throws
  throwOnGet,                    \* the providers whose getItem throws
  throwOnRemove,                 \* the providers whose removeItem throws
  written,                       \* the token handed to the last persistToken, "none" before it
  writeStatus,                   \* what the last persistToken returned
  readStatus,                    \* what the last readToken returned
  writes,                        \* calls of persistToken so far
  store_pc,                      \* "idle", "ready", "written" or "read"
  \* The controls of the schedule form under the initial data load
  controls,                      \* control -> its disabled flag, value, dataset flags and aria-disabled
  isInitialDataLoading,          \* the flag of setInitialDataLoading
  lastScheduleSnapshot,          \* the schedule populated last, "none" for null
  form_authenticated,            \* body has the class authenticated
  form_logins,                   \* accepted logins so far
  form_pc,                       \* "idle", "page", "loading", "answered" or "ready"
  \* The session of the panel: login, the three initial loads and their answers
  p_memoryToken,                 \* memoryToken of the page, "none" for null
  p_localStorage,                \* the item pullpilot.bearerToken of localStorage, "none" when absent
  tokenInput,                    \* tokenInput.value
  rememberCheckbox,              \* rememberCheckbox.checked
  authenticated,                 \* body has the class authenticated
  verifying,                     \* the auth-check in flight: its token, persist and origin
  in_flight,                     \* the authorized requests in flight: section and session that issued it
  populated,                     \* the sections of the portal that show loaded data
  passed,                        \* the tokens auth-check has accepted
  late_populated,                \* an answer populated a section after the session of its request was over
  session                        \* logins accepted so far

updater_vars ==
  <<conf_file, main_out, list_unreadable, DRY_RUN, PULL_POLICY, ATTACH_LOGS_ON,
    COMPOSE_SUPPORTS_PULL_POLICY, pc, exit_status, lock, rival, PROJECT_DIRS, idx,
    project_order, project_display_names, before, after, changed,
    changed_projects, failed_projects, plog, now, proj_logs, project_logs,
    compose_files, RUN_CMDS, executed, dry_logged, suppressed, step_failed, sick, ps_q,
    diffed, maint_failed, display_name_counts, changed_count, failed_count,
    attachments, attached_projects, changed_project_labels,
    failed_project_labels>>

\* State of the parts modelled further down, none of which the updater
\* touches.
parse_vars == <<list_lines, list_terminated, line_no, listed_dirs, list_pc>>
text_vars == <<patsub_replacement, changed_display, changed_display_html,
               plain_summary, html_summary, text_pc>>
scan_vars == <<BASE_DIR, EXCLUDE_PATTERNS, find_todo, scanned_dirs, scan_pc>>
logs_vars == <<abort_supported, currentId, activeController, requests, rendered,
               stale_rendered>>
banner_vars == <<clock, advances, timers, status_hidden, status_text, shown_at,
                 shows, hidden_at>>
login_vars == <<localStorage, sessionStorage, local_works, memoryToken, submitted,
                shouldPersist, auth_response, login_status, logins, login_pc>>
sync_vars == <<DEFAULT_CONFIG_DIR, CONFIG_DIR, config_subdirs, default_files, config_before, starts, sync_pc>>
store_vars == <<storages, throwOnSet, throwOnGet, throwOnRemove, written, writeStatus, readStatus, writes, store_pc>>
form_vars == <<controls, isInitialDataLoading, lastScheduleSnapshot, form_authenticated, form_logins, form_pc>>
portal_vars == <<p_memoryToken, p_localStorage, tokenInput, rememberCheckbox, authenticated, verifying, in_flight, populated, passed, late_populated, session>>
aux_vars == <<parse_vars, text_vars, scan_vars, logs_vars, banner_vars, login_vars,
    sync_vars, store_vars, form_vars, portal_vars>>

\* What the steps of one part leave alone.
beside_parse == <<updater_vars, text_vars, scan_vars, logs_vars, banner_vars, login_vars,
    sync_vars, store_vars, form_vars, portal_vars>>
beside_text == <<updater_vars, parse_vars, scan_vars, logs_vars, banner_vars, login_vars,
    sync_vars, store_vars, form_vars, portal_vars>>
beside_scan == <<updater_vars, parse_vars, text_vars, logs_vars, banner_vars, login_vars,
    sync_vars, store_vars, form_vars, portal_vars>>
beside_logs == <<updater_vars, parse_vars, text_vars, scan_vars, banner_vars, login_vars,
    sync_vars, store_vars, form_vars, portal_vars>>
beside_banner == <<updater_vars, parse_vars, text_vars, scan_vars, logs_vars, login_vars,
    sync_vars, store_vars, form_vars, portal_vars>>
beside_login == <<updater_vars, parse_vars, text_vars, scan_vars, logs_vars, banner_vars,
    sync_vars, store_vars, form_vars, portal_vars>>
beside_sync == <<updater_vars, parse_vars, text_vars, scan_vars, logs_vars, banner_vars, login_vars,
    store_vars, form_vars, portal_vars>>
beside_store == <<updater_vars, parse_vars, text_vars, scan_vars, logs_vars, banner_vars, login_vars, sync_vars,
    form_vars, portal_vars>>
beside_form == <<updater_vars, parse_vars, text_vars, scan_vars, logs_vars, banner_vars, login_vars, sync_vars, store_vars,
    portal_vars>>
beside_portal == <<updater_vars, parse_vars, text_vars, scan_vars, logs_vars, banner_vars, login_vars, sync_vars, store_vars, form_vars>>

vars == <<updater_vars, aux_vars>>

start_vars == <<conf_file, main_out, list_unreadable>>
conf_vars == <<DRY_RUN, PULL_POLICY>>
log_vars == <<now, proj_logs, project_logs, compose_files>>
label_vars == <<changed_project_labels, failed_project_labels>>
loop_vars == <<before, after, changed, changed_projects, failed_projects, plog,
               project_order, project_display_names, step_failed, sick, ps_q, diffed,
               log_vars>>
run_vars == <<RUN_CMDS, executed, dry_logged, suppressed>>
att_vars == <<attachments, attached_projects>>
sum_vars == <<display_name_counts, changed_count, failed_count, maint_failed,
              att_vars, label_vars, ATTACH_LOGS_ON>>


\* ---------------------------------------------------------------------
\* State at the start of the script; the configuration keys are shown with
\* their built-in defaults until CONF_FILE has been dealt with
\* ---------------------------------------------------------------------
\* Lines 75 and 77, the environment setting neither key.
DefaultConf == [DRY_RUN |-> FALSE, PULL_POLICY |-> "always"]

UpdaterInit ==
  /\ conf_file = ""
  /\ main_out = {}
  /\ list_unreadable = FALSE
  /\ DRY_RUN = DefaultConf.DRY_RUN
  /\ PULL_POLICY = DefaultConf.PULL_POLICY
  /\ ATTACH_LOGS_ON = ""
  /\ COMPOSE_SUPPORTS_PULL_POLICY = TRUE
  /\ pc = "load_config"
  /\ exit_status = "none"
  /\ lock = "free"
  /\ rival = "absent"
  /\ PROJECT_DIRS = <<>>
  /\ idx = 0
  /\ project_order = <<>>
  /\ project_display_names = <<>>
  /\ before = EmptySnap
  /\ after = EmptySnap
  /\ changed = FALSE
  /\ changed_projects = <<>>
  /\ failed_projects = <<>>
  /\ plog = <<>>
  /\ now = 0
  /\ proj_logs = <<>>
  /\ project_logs = <<>>
  /\ compose_files = <<>>
  /\ RUN_CMDS = <<>>
  /\ executed = {}
  /\ dry_logged = {}
  /\ suppressed = {}
  /\ step_failed = "none"
  /\ sick = {}
  /\ ps_q = <<>>
  /\ diffed = {}
  /\ maint_failed = {}
  /\ display_name_counts = <<>>
  /\ changed_count = 0
  /\ failed_count = 0
  /\ attachments = <<>>
  /\ attached_projects = <<>>
  /\ changed_project_labels = <<>>
  /\ failed_project_labels = <<>>

ParseIdle ==
  /\ list_lines = <<>>
  /\ list_terminated = TRUE
  /\ line_no = 0
  /\ listed_dirs = <<>>
  /\ list_pc = "idle"

TextIdle ==
  /\ patsub_replacement = FALSE
  /\ changed_display = <<>>
  /\ changed_display_html = <<>>
  /\ plain_summary = <<>>
  /\ html_summary = <<>>
  /\ text_pc = "idle"

ScanIdle ==
  /\ BASE_DIR = <<>>
  /\ EXCLUDE_PATTERNS = <<>>
  /\ find_todo = <<>>
  /\ scanned_dirs = <<>>
  /\ scan_pc = "idle"

LogsIdle ==
  /\ abort_supported = FALSE
  /\ currentId = 0
  /\ activeController = 0
  /\ requests = <<>>
  /\ rendered = 0
  /\ stale_rendered = FALSE

BannerIdle ==
  /\ clock = 0
  /\ advances = 0
  /\ timers = <<>>
  /\ status_hidden = TRUE
  /\ status_text = ""
  /\ shown_at = 0
  /\ shows = 0
  /\ hidden_at = 0

LoginIdle ==
  /\ localStorage = "none"
  /\ sessionStorage = "none"
  /\ local_works = TRUE
  /\ memoryToken = "none"
  /\ submitted = "none"
  /\ shouldPersist = FALSE
  /\ auth_response = "none"
  /\ login_status = ""
  /\ logins = 0
  /\ login_pc = "idle"

\* The parts modelled further down at rest, all but the one named.
SyncIdle ==
  /\ DEFAULT_CONFIG_DIR = {}
  /\ CONFIG_DIR = <<>>
  /\ config_subdirs = {}
  /\ default_files = <<>>
  /\ config_before = <<>>
  /\ starts = 0
  /\ sync_pc = "idle"

StoreIdle ==
  /\ storages = <<>>
  /\ throwOnSet = {}
  /\ throwOnGet = {}
  /\ throwOnRemove = {}
  /\ written = "none"
  /\ writeStatus = <<>>
  /\ readStatus = <<>>
  /\ writes = 0
  /\ store_pc = "idle"

FormIdle ==
  /\ controls = <<>>
  /\ isInitialDataLoading = FALSE
  /\ lastScheduleSnapshot = "none"
  /\ form_authenticated = FALSE
  /\ form_logins = 0
  /\ form_pc = "idle"

PortalIdle ==
  /\ p_memoryToken = "none"
  /\ p_localStorage = "none"
  /\ tokenInput = ""
  /\ rememberCheckbox = FALSE
  /\ authenticated = FALSE
  /\ verifying = <<>>
  /\ in_flight = {}
  /\ populated = {}
  /\ passed = {}
  /\ late_populated = FALSE
  /\ session = 0

Resting(part) ==
  /\ IF part = "parse" THEN TRUE ELSE ParseIdle
  /\ IF part = "text" THEN TRUE ELSE TextIdle
  /\ IF part = "scan" THEN TRUE ELSE ScanIdle
  /\ IF part = "logs" THEN TRUE ELSE LogsIdle
  /\ IF part = "banner" THEN TRUE ELSE BannerIdle
  /\ IF part = "login" THEN TRUE ELSE LoginIdle
  /\ IF part = "sync" THEN TRUE ELSE SyncIdle
  /\ IF part = "store" THEN TRUE ELSE StoreIdle
  /\ IF part = "form" THEN TRUE ELSE FormIdle
  /\ IF part = "portal" THEN TRUE ELSE PortalIdle

AuxIdle == Resting("none")

Init == UpdaterInit /\ AuxIdle

\* ---------------------------------------------------------------------
\* The run lock (lines 89-94)
\* ---------------------------------------------------------------------
\* A lock that is granted to whoever asks.
flock_nb_always(holder) == TRUE

\* flock -n 9: granted exactly when nobody holds the lock.
flock_nb(holder) == holder = "free"

\* A lock dropped by whichever invocation ends.
release_any(holder, who) == "free"

\* The lock lives on file descriptor 9, which only the end of the process closes.
release_on_exit(holder, who) == IF holder = who THEN "free" ELSE holder

\* exit N, on any path.
Exit(st) ==
  /\ pc' = "exited"
  /\ exit_status' = st
  /\ lock' = release_on_exit(lock, "self")

\* die: the message goes to the output and the script exits with status 1.
Die(msg) ==
  /\ main_out' = main_out \cup {msg}
  /\ Exit(1)

\* What CONF_FILE can name: a file that can be read, nothing, or a file
\* that is there and cannot be read.
ConfFiles == {"readable", "missing", "unreadable"}

\* Status of `source "$CONF_FILE"` for a file that has passed [[ -f ]].
source_status(f) == IF f = "unreadable" THEN 1 ELSE 0

\* Lines 55-84, under set -e.
LoadConfig ==
  /\ pc = "load_config"
  /\ \E f \in ConfFiles :
       /\ conf_file' = f
       /\ IF f = "missing"
          THEN /\ main_out' = main_out \cup {"warn_no_conf"}
               /\ DRY_RUN' = DefaultConf.DRY_RUN
               /\ PULL_POLICY' = DefaultConf.PULL_POLICY
               /\ pc' = "open_lock"
               /\ UNCHANGED <<exit_status, lock>>
          ELSE IF source_status(f) # 0
               THEN /\ Exit(source_status(f))
                    /\ UNCHANGED <<main_out, conf_vars>>
               ELSE /\ DRY_RUN' \in BOOLEAN
                    /\ PULL_POLICY' \in PullPolicies
                    /\ pc' = "open_lock"
                    /\ UNCHANGED <<main_out, exit_status, lock>>
  /\ UNCHANGED <<aux_vars, list_unreadable, COMPOSE_SUPPORTS_PULL_POLICY, rival,
                 PROJECT_DIRS, idx, loop_vars, run_vars, sum_vars>>

\* mkdir -p; exec 9>"$LOCK_FILE" || die
OpenLock ==
  /\ pc = "open_lock"
  /\ \E opened \in BOOLEAN :
       IF opened
       THEN pc' = "flock" /\ UNCHANGED <<exit_status, lock, main_out>>
       ELSE Die("err_lock")
  /\ UNCHANGED <<aux_vars, conf_file, list_unreadable, conf_vars, COMPOSE_SUPPORTS_PULL_POLICY, rival, PROJECT_DIRS, idx,
                 loop_vars, run_vars, sum_vars>>

\* if ! flock -n 9; then warn; exit 0; fi
Flock ==
  /\ pc = "flock"
  /\ IF flock_nb(lock)
     THEN lock' = "self" /\ pc' = "detect" /\ UNCHANGED <<exit_status, main_out>>
     ELSE main_out' = main_out \cup {"warn_lock_busy"} /\ Exit(0)
  /\ UNCHANGED <<aux_vars, conf_file, list_unreadable, conf_vars, COMPOSE_SUPPORTS_PULL_POLICY, rival, PROJECT_DIRS, idx,
                 loop_vars, run_vars, sum_vars>>

\* The other invocation reaches its own flock -n 9 and gets the lock.
RivalStart ==
  /\ rival = "absent"
  /\ flock_nb(lock)
  /\ lock' = "rival"
  /\ rival' = "running"
  /\ UNCHANGED <<aux_vars, start_vars, conf_vars, COMPOSE_SUPPORTS_PULL_POLICY, pc, exit_status, PROJECT_DIRS,
                 idx, loop_vars, run_vars, sum_vars>>

\* The other invocation finds the lock held and leaves with exit 0.
RivalSkip ==
  /\ rival = "absent"
  /\ ~flock_nb(lock)
  /\ rival' = "gone"
  /\ UNCHANGED <<aux_vars, start_vars, conf_vars, COMPOSE_SUPPORTS_PULL_POLICY, pc, exit_status, lock,
                 PROJECT_DIRS, idx, loop_vars, run_vars, sum_vars>>

\* The other invocation ends; its descriptor 9 is closed with it.
RivalExit ==
  /\ rival = "running"
  /\ rival' = "gone"
  /\ lock' = release_on_exit(lock, "rival")
  /\ UNCHANGED <<aux_vars, start_vars, conf_vars, COMPOSE_SUPPORTS_PULL_POLICY, pc, exit_status, PROJECT_DIRS,
                 idx, loop_vars, run_vars, sum_vars>>

\* ---------------------------------------------------------------------
\* Detection of the compose tool (lines 134-180)
\* ---------------------------------------------------------------------
ComposeBins == {"docker compose", "docker-compose", "podman-compose"}

\* major: first component of the version the tool reports, 0 when
\* get_compose_version fails.
supports_pull_policy(bin, major) ==
  IF major # 0
  THEN major >= 2
  ELSE IF bin = "docker compose" THEN TRUE
       ELSE IF bin = "docker-compose" THEN FALSE
       ELSE TRUE

DetectCompose ==
  /\ pc = "detect"
  /\ \E override \in ComposeBins \cup {""}, plugin \in BOOLEAN, v1 \in BOOLEAN,
        major \in 0..2 :
       IF override = "" /\ ~plugin /\ ~v1
       THEN Die("err_no_compose") /\ UNCHANGED COMPOSE_SUPPORTS_PULL_POLICY
       ELSE LET bin == IF override # "" THEN override
                       ELSE IF plugin THEN "docker compose" ELSE "docker-compose"
            IN  /\ COMPOSE_SUPPORTS_PULL_POLICY' = supports_pull_policy(bin, major)
                /\ pc' = "discover"
                /\ UNCHANGED <<exit_status, lock, main_out>>
  /\ UNCHANGED <<aux_vars, conf_file, list_unreadable, conf_vars, rival, PROJECT_DIRS, idx, loop_vars, run_vars, sum_vars>>

\* ---------------------------------------------------------------------
\* Project discovery (lines 390-433)
\* ---------------------------------------------------------------------
\* listed: COMPOSE_PROJECTS_FILE is set; readable: [[ -r ]] of line 395;
\* dirs: what the list file, or find and is_excluded, yield.
\* A test that lets an unreadable list file pass.
list_readable_unchecked(listed, readable) == TRUE

\* Lines 394-395 and 402-404: the list file is used when it is not
\* configured at all or when [[ -r ]] holds.
list_readable(listed, readable) == ~listed \/ readable

Discover ==
  /\ pc = "discover"
  /\ \E listed \in BOOLEAN, readable \in BOOLEAN, dirs \in DirLists :
       /\ list_unreadable' = (listed /\ ~readable)
       /\ IF ~list_readable(listed, readable)
          THEN Die("err_list_unreadable") /\ UNCHANGED <<PROJECT_DIRS, idx>>
          ELSE IF Len(dirs) = 0
               THEN Die("err_no_projects") /\ UNCHANGED <<PROJECT_DIRS, idx>>
               ELSE /\ PROJECT_DIRS' = dirs
                    /\ idx' = 1
                    /\ pc' = "loop"
                    /\ UNCHANGED <<exit_status, lock, main_out>>
  /\ UNCHANGED <<aux_vars, conf_file, conf_vars, COMPOSE_SUPPORTS_PULL_POLICY, rival, loop_vars, run_vars,
                 sum_vars>>

\* Lines 394-401 on a readable list file that names a directory on more
\* than one line.
DiscoverRepeated ==
  /\ pc = "discover"
  /\ \E dirs \in RepeatingDirLists :
       /\ PROJECT_DIRS' = dirs
       /\ idx' = 1
       /\ pc' = "loop"
  /\ UNCHANGED <<aux_vars, start_vars, conf_vars, COMPOSE_SUPPORTS_PULL_POLICY,
                 exit_status, lock, rival,
                 loop_vars, run_vars, sum_vars>>

\* ---------------------------------------------------------------------
\* Utilities (lines 202-307)
\* ---------------------------------------------------------------------
\* run: under DRY_RUN the command is announced and 0 is returned, otherwise
\* the status of the command is returned.
run_status(dry, rc) == IF dry THEN 0 ELSE rc

\* A run that executes its command whatever DRY_RUN says.
RunEffect_executes(cmd) ==
  /\ RUN_CMDS' = Append(RUN_CMDS, cmd)
  /\ executed' = executed \cup {cmd}
  /\ UNCHANGED <<dry_logged, suppressed>>

\* What run leaves behind for command cmd.
RunEffect(cmd) ==
  /\ RUN_CMDS' = Append(RUN_CMDS, cmd)
  /\ IF DRY_RUN
     THEN /\ dry_logged' = dry_logged \cup {cmd}
          /\ suppressed' = suppressed \cup {cmd}
          /\ UNCHANGED executed
     ELSE /\ executed' = executed \cup {cmd}
          /\ UNCHANGED <<dry_logged, suppressed>>

ComposeNames == <<"compose.yaml", "compose.yml", "docker-compose.yaml", "docker-compose.yml">>

\* A lookup that takes the last recognised file of the directory.
get_compose_file_last(dir) ==
  LET hits == {i \in 1..Len(ComposeNames) : ComposeNames[i] \in FilesIn(dir)}
  IN  IF hits = {} THEN ""
      ELSE ComposeNames[CHOOSE i \in hits : \A j \in hits : i >= j]

\* get_compose_file: the first recognised file of the directory, "" when none.
get_compose_file(dir) ==
  LET hits == {i \in 1..Len(ComposeNames) : ComposeNames[i] \in FilesIn(dir)}
  IN  IF hits = {} THEN ""
      ELSE ComposeNames[CHOOSE i \in hits : \A j \in hits : i <= j]

\* basename
Basename(dir) ==
  IF dir \in {"/srv/a/app", "/srv/b/app"} THEN "app" ELSE "empty"

\* sha1sum <<<"$dir" | cut -c1-8
dir_hash(dir) ==
  IF dir = "/srv/a/app" THEN "a1d22504"
  ELSE IF dir = "/srv/b/app" THEN "0e78a6af"
  ELSE "11cac0a6"

\* printf '%s/%s_%(%Y%m%d-%H%M%S)T_%s.log': the name of the log of a
\* project taken up at second t.
proj_log_name(dir, t) == <<Basename(dir), t, dir_hash(dir)>>

\* A mapfile that would hand on the status of the command it reads from.
mapfile_status_of_cmd(rc) == rc

\* Status of `mapfile -t arr < <(cmd)`: the status of mapfile, which does
\* not see the status rc of the command in the process substitution.
mapfile_status(rc) == 0

\* capture_images: rc is the status of `config --services`, imgs the key
\* of every declared service.  A failed listing leaves no service.
capture_images(rc, imgs) ==
  IF mapfile_status(rc) # 0
  THEN [status |-> 1, out |-> EmptySnap]
  ELSE [status |-> 0, out |-> IF rc = 0 THEN imgs ELSE EmptySnap]

\* The health requirement on one container (lines 303-304).
fails_requirement(c) ==
  \/ c.hc # "none" /\ c.hc # "healthy"
  \/ c.hc = "none" /\ c.status # "running"

\* A loop that stops after its first container.
health_loop_first(ids, i) ==
  IF i > Len(ids) THEN 0
  ELSE IF fails_requirement(ids[i]) THEN 1 ELSE 0

\* The loop of lines 299-305: 1 as soon as a container fails, else 0.
RECURSIVE health_loop(_, _)
health_loop(ids, i) ==
  IF i > Len(ids) THEN 0
  ELSE IF fails_requirement(ids[i]) THEN 1
  ELSE health_loop(ids, i + 1)

\* healthcheck_project: rc is the status of `ps -q`, ids the containers of
\* the project.
healthcheck_project(rc, ids) ==
  IF mapfile_status(rc) # 0 THEN 1
  ELSE LET listed == IF rc = 0 THEN ids ELSE <<>>
       IN  IF Len(listed) = 0 THEN 1 ELSE health_loop(listed, 1)

\* ---------------------------------------------------------------------
\* The project loop (lines 445-561)
\* ---------------------------------------------------------------------
Key(i) == PROJECT_DIRS[i]

\* `break`: out of the loop.
after_failure_break(i) == Len(PROJECT_DIRS) + 1

\* `continue`: on to the next entry of PROJECT_DIRS.
after_failure(i) == i + 1

\* warn + failed_projects+=(key) + continue
FailProject(tag) ==
  /\ plog' = [plog EXCEPT ![idx] = @ \cup {tag}]
  /\ failed_projects' = Append(failed_projects, Key(idx))
  /\ idx' = after_failure(idx)
  /\ pc' = "loop"

\* for dir in "${PROJECT_DIRS[@]}" has run out of entries.  Nothing in the
\* loop depends on ATTACH_LOGS_ON, whose value is drawn here.
LoopDone ==
  /\ pc = "loop"
  /\ idx > Len(PROJECT_DIRS)
  /\ pc' = "retention"
  /\ step_failed' = "none"
  /\ ATTACH_LOGS_ON' \in AttachPolicies
  /\ UNCHANGED <<aux_vars, start_vars, conf_vars, COMPOSE_SUPPORTS_PULL_POLICY, exit_status, lock, rival,
                 PROJECT_DIRS, idx, before, after, changed, changed_projects,
                 failed_projects, plog, project_order, project_display_names, sick, ps_q,
                 diffed, log_vars, run_vars, display_name_counts, changed_count,
                 failed_count, maint_failed, att_vars, label_vars>>

\* [[ -f "$compose_file" ]] || continue
SkipDir ==
  /\ pc = "loop"
  /\ idx <= Len(PROJECT_DIRS)
  /\ get_compose_file(Key(idx)) = ""
  /\ idx' = idx + 1
  /\ UNCHANGED <<aux_vars, start_vars, conf_vars, COMPOSE_SUPPORTS_PULL_POLICY, pc, exit_status, lock, rival,
                 PROJECT_DIRS, loop_vars, run_vars, sum_vars>>

\* A loop body that goes to the pull without the before-snapshot.
BeginProject_skips_snapshot ==
  /\ pc = "loop"
  /\ idx <= Len(PROJECT_DIRS)
  /\ get_compose_file(Key(idx)) # ""
  /\ project_order' = Append(project_order, Key(idx))
  /\ now' = now
  /\ compose_files' = (idx :> get_compose_file(Key(idx))) @@ compose_files
  /\ proj_logs' = Append(proj_logs, proj_log_name(Key(idx), now))
  /\ project_logs' = (Key(idx) :> proj_log_name(Key(idx), now)) @@ project_logs
  /\ project_display_names' = (Key(idx) :> Basename(Key(idx))) @@ project_display_names
  /\ plog' = (idx :> {"Proyecto"}) @@ plog
  /\ step_failed' = "none"
  /\ pc' = "pull"
  /\ UNCHANGED <<aux_vars, start_vars, conf_vars, COMPOSE_SUPPORTS_PULL_POLICY, exit_status, lock, rival,
                 PROJECT_DIRS, idx, before, after, changed, changed_projects,
                 failed_projects, sick, ps_q, diffed, run_vars, sum_vars>>

\* Lines 449-462: bookkeeping of the project and the head of its log.  The
\* second of the clock tells two log names apart only when they belong to
\* the same directory, so the clock is let go on only for a directory that
\* was taken up before.
BeginProject ==
  /\ pc = "loop"
  /\ idx <= Len(PROJECT_DIRS)
  /\ get_compose_file(Key(idx)) # ""
  /\ project_order' = Append(project_order, Key(idx))
  /\ compose_files' = (idx :> get_compose_file(Key(idx))) @@ compose_files
  /\ \E t \in (IF Key(idx) \in Range(project_order) THEN {now, now + 1} ELSE {now}) :
       /\ now' = t
       /\ proj_logs' = Append(proj_logs, proj_log_name(Key(idx), t))
       /\ project_logs' = (Key(idx) :> proj_log_name(Key(idx), t)) @@ project_logs
  /\ project_display_names' = (Key(idx) :> Basename(Key(idx))) @@ project_display_names
  /\ plog' = (idx :> {"Proyecto"}) @@ plog
  /\ step_failed' = "none"
  /\ pc' = "snapshot_before"
  /\ UNCHANGED <<aux_vars, start_vars, conf_vars, COMPOSE_SUPPORTS_PULL_POLICY, exit_status, lock, rival,
                 PROJECT_DIRS, idx, before, after, changed, changed_projects,
                 failed_projects, sick, ps_q, diffed, run_vars, sum_vars>>

\* Lines 464-477.
SnapshotBefore ==
  /\ pc = "snapshot_before"
  /\ \E rc \in ToolStatuses, imgs \in FullSnaps :
       LET r == capture_images(rc, imgs)
       IN  /\ executed' = executed \cup {<<"snapshot_before", idx>>}
           /\ step_failed' = IF rc # 0 THEN "snapshot_before" ELSE step_failed
           /\ IF r.status # 0
              THEN /\ FailProject("warn_snapshot_before")
                   /\ before' = EmptySnap
              ELSE /\ before' = r.out
                   /\ pc' = "pull"
                   /\ UNCHANGED <<plog, failed_projects, idx>>
  /\ UNCHANGED <<aux_vars, start_vars, conf_vars, COMPOSE_SUPPORTS_PULL_POLICY, exit_status, lock, rival,
                 PROJECT_DIRS, after, changed, changed_projects, project_order,
                 project_display_names, sick, ps_q, diffed, log_vars, RUN_CMDS, dry_logged,
                 suppressed, sum_vars>>

\* A decision that leaves every `missing` pull to `up --pull missing`,
\* whether the tool knows the flag or not.
do_explicit_pull_trusts_up(policy, supports) ==
  IF policy = "never" THEN FALSE
  ELSE IF policy = "missing" THEN FALSE
  ELSE TRUE

\* Lines 480-488.
do_explicit_pull(policy, supports) ==
  IF policy = "never" THEN FALSE
  ELSE IF policy = "missing" /\ supports THEN FALSE
  ELSE TRUE

\* Lines 490-503.
Pull ==
  /\ pc = "pull"
  /\ IF do_explicit_pull(PULL_POLICY, COMPOSE_SUPPORTS_PULL_POLICY)
     THEN \E rc \in ToolStatuses :
            /\ RunEffect(<<"pull", idx>>)
            /\ IF run_status(DRY_RUN, rc) # 0
               THEN /\ FailProject("warn_pull")
                    /\ step_failed' = "pull"
               ELSE /\ pc' = "up"
                    /\ UNCHANGED <<plog, failed_projects, idx, step_failed>>
     ELSE /\ plog' = [plog EXCEPT ![idx] = @ \cup {"info_skip_pull"}]
          /\ pc' = "up"
          /\ UNCHANGED <<failed_projects, idx, step_failed, run_vars>>
  /\ UNCHANGED <<aux_vars, start_vars, conf_vars, COMPOSE_SUPPORTS_PULL_POLICY, exit_status, lock, rival,
                 PROJECT_DIRS, before, after, changed, changed_projects, project_order,
                 project_display_names, sick, ps_q, diffed, log_vars, sum_vars>>

\* Lines 505-523.
Up ==
  /\ pc = "up"
  /\ \E rc \in ToolStatuses :
       /\ RunEffect(<<"up", idx>>)
       /\ IF run_status(DRY_RUN, rc) # 0
          THEN /\ FailProject("warn_up")
               /\ step_failed' = "up"
          ELSE /\ pc' = "snapshot_after"
               /\ UNCHANGED <<plog, failed_projects, idx, step_failed>>
  /\ UNCHANGED <<aux_vars, start_vars, conf_vars, COMPOSE_SUPPORTS_PULL_POLICY, exit_status, lock, rival,
                 PROJECT_DIRS, before, after, changed, changed_projects, project_order,
                 project_display_names, sick, ps_q, diffed, log_vars, sum_vars>>

\* Lines 525-538.
SnapshotAfter ==
  /\ pc = "snapshot_after"
  /\ \E rc \in ToolStatuses, imgs \in FullSnaps :
       LET r == capture_images(rc, imgs)
       IN  /\ executed' = executed \cup {<<"snapshot_after", idx>>}
           /\ step_failed' = IF rc # 0 /\ step_failed = "none"
                             THEN "snapshot_after" ELSE step_failed
           /\ IF r.status # 0
              THEN /\ FailProject("warn_snapshot_after")
                   /\ after' = EmptySnap
              ELSE /\ after' = r.out
                   /\ pc' = "classify"
                   /\ UNCHANGED <<plog, failed_projects, idx>>
  /\ UNCHANGED <<aux_vars, start_vars, conf_vars, COMPOSE_SUPPORTS_PULL_POLICY, exit_status, lock, rival,
                 PROJECT_DIRS, before, changed, changed_projects, project_order,
                 project_display_names, sick, ps_q, diffed, log_vars, RUN_CMDS, dry_logged,
                 suppressed, sum_vars>>

\* ${arr[$k]:-}
Get(arr, k) == IF k \in DOMAIN arr THEN arr[k] ELSE ""

\* Lines 541-544: the loop runs over the keys of `after`.
images_changed(b, a) == \E k \in DOMAIN a : Get(b, k) # Get(a, k)

\* Lines 540-544.  before and after are not read again until lines 465 and
\* 526 declare them empty, so they are emptied here.
Classify ==
  /\ pc = "classify"
  /\ changed' = images_changed(before, after)
  /\ diffed' = IF images_changed(before, after) THEN diffed \cup {idx} ELSE diffed
  /\ before' = EmptySnap
  /\ after' = EmptySnap
  /\ pc' = "healthcheck"
  /\ UNCHANGED <<aux_vars, start_vars, conf_vars, COMPOSE_SUPPORTS_PULL_POLICY, exit_status, lock, rival,
                 PROJECT_DIRS, idx, changed_projects, failed_projects, plog,
                 project_order, project_display_names, step_failed, sick, ps_q, log_vars,
                 run_vars, sum_vars>>

\* The record of a project that leaves the changed tally when its
\* healthcheck has failed.
record_changed_unless_failed(chg, hc) ==
  IF hc # 0 THEN {} ELSE IF chg THEN {"ok_updated"} ELSE {"info_unchanged"}

\* The two messages of lines 552-557 the wrong way round.
record_changed_inverted(chg, hc) == IF chg THEN {"info_unchanged"} ELSE {"ok_updated"}

\* Lines 552-557: the message written after the healthcheck.
record_changed(chg, hc) == IF chg THEN {"ok_updated"} ELSE {"info_unchanged"}

\* Lines 546-557: healthcheck, then the changed/unchanged record.
Healthcheck ==
  /\ pc = "healthcheck"
  /\ \E rc \in ToolStatuses, ids \in ContainerLists :
       LET hc == healthcheck_project(rc, ids)
           tags == record_changed(changed, hc)
       IN  /\ executed' = executed \cup {<<"healthcheck", idx>>}
           /\ sick' = IF \E i \in 1..Len(ids) : fails_requirement(ids[i])
                      THEN sick \cup {idx} ELSE sick
           /\ ps_q' = (idx :> IF rc # 0 THEN "failed"
                               ELSE IF Len(ids) = 0 THEN "empty" ELSE "listed") @@ ps_q
           /\ step_failed' = IF hc # 0 /\ step_failed = "none"
                             THEN "healthcheck" ELSE step_failed
           /\ failed_projects' = IF hc # 0 THEN Append(failed_projects, Key(idx))
                                 ELSE failed_projects
           /\ plog' = [plog EXCEPT ![idx] =
                         @ \cup (IF hc # 0 THEN {"warn_healthcheck"} ELSE {}) \cup tags]
           /\ changed_projects' = IF "ok_updated" \in tags
                                  THEN Append(changed_projects, Key(idx))
                                  ELSE changed_projects
  /\ idx' = idx + 1
  /\ pc' = "loop"
  /\ UNCHANGED <<aux_vars, start_vars, conf_vars, COMPOSE_SUPPORTS_PULL_POLICY, exit_status, lock, rival,
                 PROJECT_DIRS, before, after, changed, project_order,
                 project_display_names, diffed, log_vars, RUN_CMDS, dry_logged,
                 suppressed, sum_vars>>


\* ---------------------------------------------------------------------
\* Maintenance after the loop (lines 563-577)
\* ---------------------------------------------------------------------
\* find "$LOG_DIR" ... -delete || true
LogRetention ==
  /\ pc = "retention"
  /\ \E rc \in ToolStatuses :
       /\ executed' = executed \cup {<<"retention", 0>>}
       /\ maint_failed' = IF rc # 0 THEN maint_failed \cup {"retention"} ELSE maint_failed
  /\ pc' = "prune"
  /\ UNCHANGED <<aux_vars, start_vars, conf_vars, COMPOSE_SUPPORTS_PULL_POLICY, exit_status, lock, rival,
                 PROJECT_DIRS, idx, loop_vars, RUN_CMDS, dry_logged, suppressed,
                 display_name_counts, changed_count, failed_count, att_vars, label_vars,
                 ATTACH_LOGS_ON>>

\* Lines 567-577; enabled is PRUNE_ENABLED == true, read here only.
Prune ==
  /\ pc = "prune"
  /\ \E enabled \in BOOLEAN, rc \in ToolStatuses :
       IF enabled /\ ~DRY_RUN
       THEN /\ executed' = executed \cup {<<"prune", 0>>}
            /\ maint_failed' = IF rc # 0 THEN maint_failed \cup {"prune"} ELSE maint_failed
            /\ UNCHANGED suppressed
       ELSE /\ suppressed' = IF enabled THEN suppressed \cup {<<"prune", 0>>} ELSE suppressed
            /\ UNCHANGED <<executed, maint_failed>>
  /\ pc' = "count_names"
  /\ UNCHANGED <<aux_vars, start_vars, conf_vars, COMPOSE_SUPPORTS_PULL_POLICY, exit_status, lock, rival,
                 PROJECT_DIRS, idx, loop_vars, RUN_CMDS, dry_logged,
                 display_name_counts, changed_count, failed_count, att_vars, label_vars,
                 ATTACH_LOGS_ON>>

\* ---------------------------------------------------------------------
\* Summary and mail (lines 579-710)
\* ---------------------------------------------------------------------
\* Status of (( x++ )) for the old value of x: that of the arithmetic
\* command, 1 when the expression evaluates to 0.
post_incr_status(old) == IF old = 0 THEN 1 ELSE 0

\* Lines 584-587 under set -e: counts the display names of the remaining
\* keys, and stops at the first arithmetic command with a non-zero status.
RECURSIVE count_names(_, _)
count_names(keys, counts) ==
  IF keys = {} THEN [status |-> 0, counts |-> counts]
  ELSE LET k == CHOOSE x \in keys : TRUE
           name == project_display_names[k]
           old == IF name \in DOMAIN counts THEN counts[name] ELSE 0
           next == (name :> (old + 1)) @@ counts
       IN  IF post_incr_status(old) # 0
           THEN [status |-> post_incr_status(old), counts |-> next]
           ELSE count_names(keys \ {k}, next)

CountNames ==
  /\ pc = "count_names"
  /\ LET r == count_names(DOMAIN project_display_names, <<>>)
     IN  /\ display_name_counts' = r.counts
         /\ IF r.status # 0
            THEN Exit(r.status)
            ELSE pc' = "summary" /\ UNCHANGED <<exit_status, lock>>
  /\ UNCHANGED <<aux_vars, start_vars, conf_vars, COMPOSE_SUPPORTS_PULL_POLICY, rival, PROJECT_DIRS, idx,
                 loop_vars, run_vars, changed_count, failed_count, maint_failed,
                 att_vars, label_vars, ATTACH_LOGS_ON>>

\* format_project_label (lines 590-601): the name, and the path hash with
\* it when the name is counted more than once.
format_project_label(key) ==
  LET name == IF key \in DOMAIN project_display_names
              THEN project_display_names[key] ELSE key
      hash == IF key \in DOMAIN project_display_names THEN dir_hash(key) ELSE ""
      count == IF name \in DOMAIN display_name_counts
               THEN display_name_counts[name] ELSE 0
  IN  IF count > 1 /\ hash # "" THEN <<name, hash>> ELSE <<name>>

\* Lines 603-621.
Summary ==
  /\ pc = "summary"
  /\ changed_project_labels' =
       [i \in 1..Len(changed_projects) |-> format_project_label(changed_projects[i])]
  /\ failed_project_labels' =
       [i \in 1..Len(failed_projects) |-> format_project_label(failed_projects[i])]
  /\ changed_count' = Len(changed_projects)
  /\ failed_count' = Len(failed_projects)
  /\ pc' = "attachments"
  /\ UNCHANGED <<aux_vars, start_vars, conf_vars, COMPOSE_SUPPORTS_PULL_POLICY, exit_status, lock, rival,
                 PROJECT_DIRS, idx, loop_vars, run_vars, display_name_counts,
                 maint_failed, att_vars, ATTACH_LOGS_ON>>

\* The loop of lines 665-673 over names: a log is attached for every name
\* not seen before that has a log path.
RECURSIVE attach_changes(_, _, _, _)
attach_changes(names, logs, seen, acc) ==
  IF names = <<>> THEN acc
  ELSE LET name == Head(names)
       IN  IF name \in seen \/ name \notin DOMAIN logs
           THEN attach_changes(Tail(names), logs, seen, acc)
           ELSE attach_changes(Tail(names), logs, seen \cup {name},
                               [files |-> Append(acc.files, logs[name]),
                                projects |-> Append(acc.projects, name)])

\* Lines 655-679.
attach_by_policy(policy) ==
  IF policy = "always"
  THEN [files |-> proj_logs, projects |-> project_order]
  ELSE IF policy = "changes" /\ (changed_count > 0 \/ failed_count > 0)
       THEN attach_changes(changed_projects \o failed_projects, project_logs, {},
                           [files |-> <<>>, projects |-> <<>>])
       ELSE [files |-> <<>>, projects |-> <<>>]

Attachments ==
  /\ pc = "attachments"
  /\ attachments' = attach_by_policy(ATTACH_LOGS_ON).files
  /\ attached_projects' = attach_by_policy(ATTACH_LOGS_ON).projects
  /\ pc' = "send_email"
  /\ UNCHANGED <<aux_vars, start_vars, conf_vars, COMPOSE_SUPPORTS_PULL_POLICY, exit_status, lock, rival,
                 PROJECT_DIRS, idx, loop_vars, run_vars, display_name_counts,
                 changed_count, failed_count, maint_failed, label_vars,
                 ATTACH_LOGS_ON>>

SmtpCmds == {"msmtp", "mailx", "sendmail", "other"}

\* send_email (lines 310-385) as called on line 703, under set -e; to_set
\* is EMAIL_TO being non-empty and smtp is SMTP_CMD, both read here only.
SendEmail ==
  /\ pc = "send_email"
  /\ \E to_set \in BOOLEAN, smtp \in SmtpCmds, rc \in ToolStatuses :
       IF ~to_set \/ smtp = "other"
       THEN /\ pc' = "final"
            /\ UNCHANGED <<exit_status, lock, run_vars, maint_failed>>
       ELSE /\ RunEffect(<<"mail", 0>>)
            /\ maint_failed' = IF ~DRY_RUN /\ rc # 0 THEN maint_failed \cup {"mail"}
                               ELSE maint_failed
            /\ IF run_status(DRY_RUN, rc) # 0
               THEN Exit(run_status(DRY_RUN, rc))
               ELSE pc' = "final" /\ UNCHANGED <<exit_status, lock>>
  /\ UNCHANGED <<aux_vars, start_vars, conf_vars, COMPOSE_SUPPORTS_PULL_POLICY, rival, PROJECT_DIRS, idx,
                 loop_vars, display_name_counts, changed_count, failed_count, att_vars, label_vars,
                 ATTACH_LOGS_ON>>

\* Lines 706-710.
final_status(fc) == IF fc > 0 THEN 2 ELSE 0

FinalExit ==
  /\ pc = "final"
  /\ Exit(final_status(failed_count))
  /\ UNCHANGED <<aux_vars, start_vars, conf_vars, COMPOSE_SUPPORTS_PULL_POLICY, rival, PROJECT_DIRS, idx,
                 loop_vars, run_vars, sum_vars>>

\* ---------------------------------------------------------------------
\* Specifications
\* ---------------------------------------------------------------------
RunNext ==
  \/ LoadConfig \/ OpenLock \/ Flock \/ DetectCompose \/ Discover
  \/ LoopDone \/ SkipDir \/ BeginProject
  \/ SnapshotBefore \/ Pull \/ Up \/ SnapshotAfter \/ Classify \/ Healthcheck
  \/ LogRetention \/ Prune \/ CountNames \/ Summary \/ Attachments \/ SendEmail
  \/ FinalExit

\* One invocation with the lock file to itself, on directories that are
\* each listed once.
Next == RunNext

Spec == Init /\ [][Next]_vars

\* One invocation whose list file may name a directory more than once.
NextList == RunNext \/ DiscoverRepeated

SpecList == Init /\ [][NextList]_vars

\* The invocation and another one started on the same lock file.
NextLock == RunNext \/ RivalStart \/ RivalSkip \/ RivalExit

SpecLock == Init /\ [][NextLock]_vars


\* ---------------------------------------------------------------------
\* The project list file read line by line (lines 396-401)
\* ---------------------------------------------------------------------
\* Characters of a line: a blank, the comment sign and a path character.
LineChars == {" ", "#", "a"}

ListLines == SeqsUpTo(LineChars, MaxLineLen)

\* A file is its lines and whether the last one ends with a newline; an
\* unfinished last line has at least one character.
ListFiles ==
  {f \in [lines : SeqsUpTo(ListLines, MaxLines), terminated : BOOLEAN] :
     ~f.terminated => (f.lines # <<>> /\ f.lines[Len(f.lines)] # <<>>)}

IsSpace(c) == c = " "

\* line="${line#"${line%%[![:space:]]*}"}", line 397
RECURSIVE ltrim(_)
ltrim(s) == IF s # <<>> /\ IsSpace(Head(s)) THEN ltrim(Tail(s)) ELSE s

\* line="${line%"${line##*[![:space:]]}"}", line 398
RECURSIVE rtrim(_)
rtrim(s) ==
  IF s # <<>> /\ IsSpace(s[Len(s)]) THEN rtrim(SubSeq(s, 1, Len(s) - 1)) ELSE s

trim(s) == rtrim(ltrim(s))

\* [[ -z "$line" || $line == \#* ]], line 399
skip_line(s) == s = <<>> \/ Head(s) = "#"

\* Status of `IFS= read -r line` at line n: `read` fails when it meets the
\* end of the file before a newline, also when it has read characters.
read_status(n) ==
  IF n < Len(list_lines) \/ (n = Len(list_lines) /\ list_terminated) THEN 0 ELSE 1

ParseInit ==
  /\ UpdaterInit
  /\ Resting("parse")
  /\ \E f \in ListFiles : list_lines = f.lines /\ list_terminated = f.terminated
  /\ line_no = 1
  /\ listed_dirs = <<>>
  /\ list_pc = "reading"

\* One turn of the while loop, lines 396-401.
ReadLine ==
  /\ list_pc = "reading"
  /\ read_status(line_no) = 0
  /\ LET line == trim(list_lines[line_no])
     IN  listed_dirs' = IF skip_line(line) THEN listed_dirs
                        ELSE Append(listed_dirs, line)
  /\ line_no' = line_no + 1
  /\ UNCHANGED <<beside_parse, list_lines, list_terminated, list_pc>>

\* `read` fails and the loop is left.
ReadEnd ==
  /\ list_pc = "reading"
  /\ read_status(line_no) # 0
  /\ list_pc' = "done"
  /\ UNCHANGED <<beside_parse, list_lines, list_terminated, line_no,
                 listed_dirs>>

NextParse == ReadLine \/ ReadEnd

SpecParse == ParseInit /\ [][NextParse]_vars


\* ---------------------------------------------------------------------
\* The project names in the plain and the HTML summary (lines 35-43, 615-652)
\* ---------------------------------------------------------------------
\* Characters of a display name: the five html_escape rewrites and a letter.
NameChars == {"&", "<", ">", "\"", "'", "a"}

DisplayNames == SeqsUpTo(NameChars, MaxNameLen)

\* The replacement of ${str//pat/repl} as the shell expands it: with
\* patsub_replacement set (the default from bash 5.2 on) an unquoted & in
\* repl stands for the text that matched.
replacement(repl, matched, patsub) ==
  [i \in 1..Len(repl) |-> IF patsub /\ repl[i] = "&" THEN matched ELSE repl[i]]

\* ${str//pat/repl} for a pattern of one character.
RECURSIVE substitute_all(_, _, _, _)
substitute_all(str, pat, repl, patsub) ==
  IF str = <<>> THEN <<>>
  ELSE (IF Head(str) = pat THEN replacement(repl, pat, patsub) ELSE <<Head(str)>>)
       \o substitute_all(Tail(str), pat, repl, patsub)

Amp == <<"&", "a", "m", "p", ";">>
Lt == <<"&", "l", "t", ";">>
Gt == <<"&", "g", "t", ";">>
Quot == <<"&", "q", "u", "o", "t", ";">>
Apos == <<"&", "#", "3", "9", ";">>

\* html_escape, lines 35-43.
html_escape(str, patsub) ==
  LET s1 == substitute_all(str, "&", Amp, patsub)
      s2 == substitute_all(s1, "<", Lt, patsub)
      s3 == substitute_all(s2, ">", Gt, patsub)
      s4 == substitute_all(s3, "\"", Quot, patsub)
  IN  substitute_all(s4, "'", Apos, patsub)

TextInit ==
  /\ UpdaterInit
  /\ Resting("text")
  /\ patsub_replacement \in BOOLEAN
  /\ changed_display \in DisplayNames
  /\ changed_display_html = <<>>
  /\ plain_summary = <<>>
  /\ html_summary = <<>>
  /\ text_pc = "escape"

\* Lines 615-618.
EscapeDisplay ==
  /\ text_pc = "escape"
  /\ changed_display_html' = html_escape(changed_display, patsub_replacement)
  /\ text_pc' = "summaries"
  /\ UNCHANGED <<beside_text, patsub_replacement, changed_display,
                 plain_summary, html_summary>>

\* Lines 632-652: the two here-documents.
Summaries ==
  /\ text_pc = "summaries"
  /\ plain_summary' = changed_display
  /\ html_summary' = changed_display_html
  /\ text_pc' = "done"
  /\ UNCHANGED <<beside_text, patsub_replacement, changed_display,
                 changed_display_html>>

NextText == EscapeDisplay \/ Summaries

SpecText == TextInit /\ [][NextText]_vars


\* ---------------------------------------------------------------------
\* The scan of BASE_DIR for project directories (lines 257-264, 406-431)
\* ---------------------------------------------------------------------
\* Paths and patterns are sequences of characters.
Tmp == <<"t", "m", "p">>
Tmpl == <<"t", "m", "p", "l">>
Web == <<"w", "e", "b">>

\* Names a directory below BASE_DIR can have.
DirNames == {Tmp, Tmpl, Web}

\* Values of BASE_DIR: /srv and /tmp.
BaseDirs == {<<"/", "s", "r", "v">>, <<"/">> \o Tmp}

\* Values of EXCLUDE_PATTERNS; the empty pattern is allowed.
PatternLists == SeqsUpTo({<<>>, Tmp, Web}, MaxPatterns)

\* A directory below BASE_DIR is the sequence of names that leads to it;
\* every directory has one subdirectory of each name, down to MaxDepth.
Tree == SeqsUpTo(DirNames, MaxDepth)

RECURSIVE PathOf(_, _)
PathOf(base, segs) ==
  IF segs = <<>> THEN base
  ELSE PathOf(base \o <<"/">> \o Head(segs), Tail(segs))

\* The order in which a directory hands out its entries.
DirOrder == <<Tmp, Tmpl, Web>>

Subdirs(segs) ==
  IF Len(segs) < MaxDepth
  THEN [i \in 1..Len(DirOrder) |-> Append(segs, DirOrder[i])]
  ELSE <<>>

EndsWith(str, suffix) ==
  /\ Len(suffix) <= Len(str)
  /\ SubSeq(str, Len(str) - Len(suffix) + 1, Len(str)) = suffix

Contains(str, part) ==
  \E i \in 1..(Len(str) - Len(part) + 1) : SubSeq(str, i, i + Len(part) - 1) = part

\* basename
RECURSIVE LastName(_)
LastName(str) ==
  IF str = <<>> \/ str[Len(str)] = "/" THEN <<>>
  ELSE Append(LastName(SubSeq(str, 1, Len(str) - 1)), str[Len(str)])

\* usable_patterns, lines 407-411.
usable_patterns(pats) == SelectSeq(pats, LAMBDA p : p # <<>>)

\* \( -path "*/$pat" -o ... \) of lines 416-424: the whole path is matched
\* against */pat, and * takes slashes too.
find_prunes(path, pats) ==
  \E i \in 1..Len(usable_patterns(pats)) :
    EndsWith(path, <<"/">> \o usable_patterns(pats)[i])

\* is_excluded, lines 257-264: [[ "$dir" == *"/$p"* || "$name" == "$p" ]]
is_excluded(dir, pats) ==
  \E i \in 1..Len(pats) :
    /\ pats[i] # <<>>
    /\ Contains(dir, <<"/">> \o pats[i]) \/ LastName(dir) = pats[i]

ScanInit ==
  /\ UpdaterInit
  /\ Resting("scan")
  /\ BASE_DIR \in BaseDirs
  /\ EXCLUDE_PATTERNS \in PatternLists
  /\ find_todo = << <<>> >>
  /\ scanned_dirs = <<>>
  /\ scan_pc = "scanning"

\* `find` at its next directory, and the loop of lines 427-430 on what
\* `find` prints for it.
FindStep ==
  /\ scan_pc = "scanning"
  /\ find_todo # <<>>
  /\ LET segs == Head(find_todo)
         d == PathOf(BASE_DIR, segs)
     IN  IF find_prunes(d, EXCLUDE_PATTERNS)
         THEN /\ find_todo' = Tail(find_todo)
              /\ UNCHANGED scanned_dirs
         ELSE /\ find_todo' = Subdirs(segs) \o Tail(find_todo)
              /\ scanned_dirs' = IF is_excluded(d, EXCLUDE_PATTERNS)
                                  THEN scanned_dirs
                                  ELSE Append(scanned_dirs, d)
  /\ UNCHANGED <<beside_scan, BASE_DIR, EXCLUDE_PATTERNS, scan_pc>>

\* `find` has visited everything.
FindEnd ==
  /\ scan_pc = "scanning"
  /\ find_todo = <<>>
  /\ scan_pc' = "done"
  /\ UNCHANGED <<beside_scan, BASE_DIR, EXCLUDE_PATTERNS, find_todo, scanned_dirs>>

NextScan == FindStep \/ FindEnd

SpecScan == ScanInit /\ [][NextScan]_vars


\* ---------------------------------------------------------------------
\* The logs view of the panel: createLogsRequestManager and fetchLogs
\* ---------------------------------------------------------------------
\* How the awaits of fetchLogs can end: with data, with an HTTP or network
\* error, or with the AbortError of an aborted signal.
Outcomes == {"ok", "error", "abort"}

LogsInit ==
  /\ UpdaterInit
  /\ Resting("logs")
  /\ abort_supported \in BOOLEAN
  /\ currentId = 0
  /\ activeController = 0
  /\ requests = <<>>
  /\ rendered = 0
  /\ stale_rendered = FALSE

\* A test that takes every request for the latest one.
isLatest_any(id) == TRUE

\* isLatest
isLatest(id) == id = currentId

\* activeController.abort() in start: the signal of the controller that is
\* active, if there is one, is aborted.
abort_active(reqs) ==
  [i \in 1..Len(reqs) |->
     IF reqs[i].controller # 0 /\ reqs[i].controller = activeController
     THEN [reqs[i] EXCEPT !.aborted = TRUE] ELSE reqs[i]]

\* fetchLogs up to its first await: start() of the request manager. The
\* controller of a request is named by the id of the request, 0 is null.
FetchLogs ==
  /\ currentId < MaxRequests
  /\ currentId' = currentId + 1
  /\ LET controller == IF abort_supported THEN currentId + 1 ELSE 0
     IN  /\ requests' = Append(abort_active(requests),
                               [id |-> currentId + 1, controller |-> controller,
                                aborted |-> FALSE, outcome |-> "none"])
         /\ activeController' = controller
  /\ UNCHANGED <<beside_logs, abort_supported, rendered, stale_rendered>>

\* fetchLogs after its awaits, to the end of its finally block. The answer
\* of a request can come at any time, also after the request was aborted.
FetchLogsResume ==
  \E r \in 1..Len(requests), outcome \in Outcomes :
    /\ requests[r].outcome = "none"
    /\ outcome = "abort" => requests[r].aborted
    /\ requests' = [requests EXCEPT ![r].outcome = outcome]
    /\ IF outcome # "abort" /\ isLatest(requests[r].id)
       THEN /\ rendered' = requests[r].id
            /\ stale_rendered' = (stale_rendered \/ requests[r].id # currentId)
       ELSE UNCHANGED <<rendered, stale_rendered>>
    \* release
    /\ activeController' = IF activeController = requests[r].controller
                           THEN 0 ELSE activeController
    /\ UNCHANGED <<beside_logs, abort_supported, currentId>>

NextLogs == FetchLogs \/ FetchLogsResume

SpecLogs == LogsInit /\ [][NextLogs]_vars


\* ---------------------------------------------------------------------
\* The status banner of the schedule form and its timed messages
\* ---------------------------------------------------------------------
\* setTimeout(() => hideStatus(scheduleStatus), 2500)
AUTO_HIDE_MS == 2500

\* Steps by which the clock moves, in milliseconds.
Advances == {100, 200, 2401}

BannerInit ==
  /\ UpdaterInit
  /\ Resting("banner")
  /\ clock = 0
  /\ advances = 0
  /\ timers = <<>>
  /\ status_hidden = TRUE
  /\ status_text = ""
  /\ shown_at = 0
  /\ shows = 0
  /\ hidden_at = 0

\* A callback is due when its time has come.
Due == {i \in 1..Len(timers) : timers[i] <= clock}

\* showStatus(scheduleStatus, message) followed by
\* setTimeout(() => hideStatus(scheduleStatus), 2500).
ShowTimed(message) ==
  /\ shows' = shows + 1
  /\ status_hidden' = FALSE
  /\ status_text' = message
  /\ shown_at' = clock
  /\ timers' = Append(timers, clock + AUTO_HIDE_MS)
  /\ UNCHANGED <<beside_banner, clock, advances, hidden_at>>

\* The end of a successful fetchSchedule.
FetchScheduleLoaded ==
  /\ shows < MaxShows
  /\ Due = {}
  /\ ShowTimed("Programacion cargada correctamente.")

\* resetSchedule with a snapshot to go back to.
ResetSchedule ==
  /\ shows < MaxShows
  /\ Due = {}
  /\ ShowTimed("Se restauro la programacion cargada.")

\* Time passes; callbacks that are due run before it passes further.
Advance ==
  /\ advances < MaxAdvances
  /\ Due = {}
  /\ \E ms \in Advances : clock' = clock + ms
  /\ advances' = advances + 1
  /\ UNCHANGED <<beside_banner, timers, status_hidden, status_text, shown_at, shows,
                 hidden_at>>

\* The callback that is due first runs: hideStatus(scheduleStatus).
TimerFires ==
  /\ Due # {}
  /\ LET i == CHOOSE i \in Due : \A j \in Due : timers[i] < timers[j] \/ (timers[i] = timers[j] /\ i <= j)
     IN  /\ hidden_at' = timers[i]
         /\ timers' = [k \in 1..(Len(timers) - 1) |-> IF k < i THEN timers[k] ELSE timers[k + 1]]
  /\ status_hidden' = TRUE
  /\ status_text' = ""
  /\ UNCHANGED <<beside_banner, clock, advances, shown_at, shows>>

NextBanner == FetchScheduleLoaded \/ ResetSchedule \/ Advance \/ TimerFires

SpecBanner == BannerInit /\ [][NextBanner]_vars


\* ---------------------------------------------------------------------
\* The login form of the panel: submit handler, verifyToken, token storage
\* ---------------------------------------------------------------------
Tokens == {"demo-token", "other-token"}

\* Answers of auth-check: accepted, 401 with and without the reason
\* "missing credentials", another HTTP error.
AuthResponses == {"204", "401 missing credentials", "401", "500"}

\* The panel opened with nothing stored.
LoginInit ==
  /\ UpdaterInit
  /\ Resting("login")
  /\ localStorage = "none"
  /\ sessionStorage = "none"
  /\ local_works \in BOOLEAN
  /\ memoryToken = "none"
  /\ submitted = "none"
  /\ shouldPersist = FALSE
  /\ auth_response = "none"
  /\ login_status = ""
  /\ logins = 0
  /\ login_pc = "form"

\* persistToken of token-storage.js: localStorage first, sessionStorage
\* when localStorage fails; the result is the pair of the two items.
persistToken(token) ==
  IF local_works THEN <<token, "none">> ELSE <<localStorage, token>>

\* clearToken of token-storage.js.
clearToken == <<IF local_works THEN "none" ELSE localStorage, "none">>

\* auth.setToken without the test of persist.
setToken_persists(token, persist) == persistToken(token)

\* auth.setToken(token, { persist }) for a token that is not empty.
setToken(token, persist) == IF persist THEN persistToken(token) ELSE clearToken

\* verifyToken reaches auth.setToken only when no error was thrown on the
\* way: the answer is neither 401 nor another failure.
stores_token(response) == response = "204"

\* The submit handler of the login form, up to the await of verifyToken.
SubmitLogin ==
  /\ login_pc = "form"
  /\ logins < MaxLogins
  /\ \E value \in Tokens \cup {""}, checked \in BOOLEAN :
       IF value = ""
       THEN /\ login_status' = "Debes introducir un token para continuar."
            /\ UNCHANGED <<submitted, shouldPersist, auth_response, logins, login_pc>>
       ELSE /\ login_status' = "Verificando token"
            /\ submitted' = value
            /\ shouldPersist' = checked
            /\ auth_response' = "none"
            /\ logins' = logins + 1
            /\ login_pc' = "verifying"
  /\ UNCHANGED <<beside_login, localStorage, sessionStorage, local_works, memoryToken>>

\* The answer of auth-check: the rest of verifyToken and of the handler.
AuthCheckAnswered ==
  /\ login_pc = "verifying"
  /\ \E response \in AuthResponses :
       /\ auth_response' = response
       /\ IF stores_token(response)
          THEN /\ memoryToken' = submitted
               /\ localStorage' = setToken(submitted, shouldPersist)[1]
               /\ sessionStorage' = setToken(submitted, shouldPersist)[2]
               /\ login_status' = "Token validado"
          ELSE /\ UNCHANGED <<memoryToken, localStorage, sessionStorage>>
               /\ login_status' = response
  /\ login_pc' = "form"
  /\ UNCHANGED <<beside_login, local_works, submitted, shouldPersist, logins>>

\* clearSession, behind the logout and the forget-token buttons.
ClearSession ==
  /\ login_pc = "form"
  /\ memoryToken # "none"
  /\ memoryToken' = "none"
  /\ localStorage' = clearToken[1]
  /\ sessionStorage' = clearToken[2]
  /\ login_status' = "Introduce el token bearer para continuar."
  /\ UNCHANGED <<beside_login, local_works, submitted, shouldPersist, auth_response,
                 logins, login_pc>>

NextLogin == SubmitLogin \/ AuthCheckAnswered \/ ClearSession

SpecLogin == LoginInit /\ [][NextLogin]_vars


\* ---------------------------------------------------------------------
\* The entrypoint of the image: the copy of
\* the default configuration into the configuration volume
\* ---------------------------------------------------------------------
MaxStarts == 2

\* Files a defaults directory can hold: two at its top, one of them hidden,
\* and two in a subdirectory.
DefaultPaths == {<<"updater.conf">>, <<".env">>, <<"hooks", "pre">>, <<"hooks", "post">>}

FileContents == {"default", "custom"}

\* The names the pattern "$DEFAULT_CONFIG_DIR"/* of line 55 does not match.
HiddenNames == {".env"}

\* The order in which the shell expands the pattern.
GlobOrder == <<"hooks", "updater.conf">>

IsVisible(name) == name \notin HiddenNames

\* Line 55: the entries at the top of the directory the pattern expands to.
glob(files) ==
  LET IsEntry(name) == IsVisible(name) /\ \E p \in files : p[1] = name
  IN  SelectSeq(GlobOrder, IsEntry)

\* [ -d "$default_file" ], line 60.
is_directory(files, name) == \E p \in files : Len(p) > 1 /\ p[1] = name

\* [ -e "$target" ], line 59.
target_exists(name) == name \in config_subdirs \/ <<name>> \in DOMAIN CONFIG_DIR

\* cp -r and cp, lines 61 and 63: the files of the entry, with the content
\* they have in the defaults directory.
cp(name) ==
  LET copied == {p \in DEFAULT_CONFIG_DIR : p[1] = name}
  IN  [p \in DOMAIN CONFIG_DIR \cup copied |->
         IF p \in copied THEN "default" ELSE CONFIG_DIR[p]]

SyncInit ==
  /\ UpdaterInit
  /\ Resting("sync")
  /\ DEFAULT_CONFIG_DIR \in SUBSET DefaultPaths
  /\ \E present \in SUBSET DefaultPaths : CONFIG_DIR \in [present -> FileContents]
  /\ config_subdirs \in SUBSET {"hooks"}
  /\ \A p \in DOMAIN CONFIG_DIR : Len(p) > 1 => p[1] \in config_subdirs
  /\ default_files = <<>>
  /\ config_before = CONFIG_DIR
  /\ starts = 0
  /\ sync_pc = "start"

\* Lines 51-55: mkdir -p and the expansion of the pattern.
ContainerStart ==
  /\ sync_pc = "start"
  /\ default_files' = glob(DEFAULT_CONFIG_DIR)
  /\ config_before' = CONFIG_DIR
  /\ starts' = starts + 1
  /\ sync_pc' = "loop"
  /\ UNCHANGED <<beside_sync, DEFAULT_CONFIG_DIR, CONFIG_DIR, config_subdirs>>

\* Lines 55-66: one turn of the for loop.
CopyDefault ==
  /\ sync_pc = "loop"
  /\ default_files # <<>>
  /\ LET filename == Head(default_files)
     IN  IF target_exists(filename)
         THEN UNCHANGED <<CONFIG_DIR, config_subdirs>>
         ELSE /\ CONFIG_DIR' = cp(filename)
              /\ config_subdirs' = IF is_directory(DEFAULT_CONFIG_DIR, filename)
                                   THEN config_subdirs \cup {filename}
                                   ELSE config_subdirs
  /\ default_files' = Tail(default_files)
  /\ UNCHANGED <<beside_sync, DEFAULT_CONFIG_DIR, config_before, starts, sync_pc>>

\* Line 69: exec "$@".
ExecCommand ==
  /\ sync_pc = "loop"
  /\ default_files = <<>>
  /\ sync_pc' = "started"
  /\ UNCHANGED <<beside_sync, DEFAULT_CONFIG_DIR, CONFIG_DIR, config_subdirs,
                 default_files, config_before, starts>>

\* The container is started again from an image whose config.defaults has
\* one file more; the volume is as the last run left it.
ImageUpdated ==
  /\ sync_pc = "started"
  /\ starts < MaxStarts
  /\ \E p \in DefaultPaths \ DEFAULT_CONFIG_DIR :
       DEFAULT_CONFIG_DIR' = DEFAULT_CONFIG_DIR \cup {p}
  /\ sync_pc' = "start"
  /\ UNCHANGED <<beside_sync, CONFIG_DIR, config_subdirs, default_files,
                 config_before, starts>>

NextSync == ContainerStart \/ CopyDefault \/ ExecCommand \/ ImageUpdated

SpecSync == SyncInit /\ [][NextSync]_vars


\* ---------------------------------------------------------------------
\* createTokenStorage (token-storage.js): readToken, clearToken and
\* persistToken over localStorage and sessionStorage, either of which can
\* throw on setItem, getItem or removeItem
\* ---------------------------------------------------------------------
MaxWrites == 2

\* STORAGE_PROVIDERS, in the order of the source: the primary, then the
\* fallback.
Primary == "localStorage"
Fallback == "sessionStorage"
ProviderIds == {Primary, Fallback}

\* performStorageAction: the attempt is ok unless the method throws.
attempt_ok(provider, thrower) == provider \notin thrower

\* persistToken(token): the storages afterwards and the status returned.
tokenStorage_persistToken(token) ==
  IF attempt_ok(Primary, throwOnSet)
  THEN LET removed == attempt_ok(Fallback, throwOnRemove)
       IN  [storages |-> [storages EXCEPT ![Primary] = token,
                                          ![Fallback] = IF removed THEN "none" ELSE @],
            status |-> [ok |-> removed, storage |-> Primary, fallbackUsed |-> FALSE,
                        token |-> "none", hadErrors |-> ~removed]]
  ELSE IF attempt_ok(Fallback, throwOnSet)
  THEN [storages |-> [storages EXCEPT ![Fallback] = token],
        status |-> [ok |-> TRUE, storage |-> Fallback, fallbackUsed |-> TRUE,
                    token |-> "none", hadErrors |-> TRUE]]
  ELSE [storages |-> storages,
        status |-> [ok |-> FALSE, storage |-> "none", fallbackUsed |-> FALSE,
                    token |-> "none", hadErrors |-> TRUE]]

\* What the attempt of readToken on a provider yields: the item when getItem
\* does not throw, null otherwise.
candidate(provider) ==
  IF attempt_ok(provider, throwOnGet) THEN storages[provider] ELSE "none"

\* readToken: the first provider, in the order of STORAGE_PROVIDERS, whose
\* attempt is ok and yields a token is the selected one.
tokenStorage_readToken ==
  LET selected == IF candidate(Primary) # "none" THEN Primary
                  ELSE IF candidate(Fallback) # "none" THEN Fallback
                  ELSE "none"
      allFailed == \A provider \in ProviderIds : ~attempt_ok(provider, throwOnGet)
  IN  [ok |-> ~allFailed,
       storage |-> selected,
       fallbackUsed |-> selected \notin {"none", Primary},
       token |-> IF selected = "none" THEN "none" ELSE candidate(selected),
       hadErrors |-> \E provider \in ProviderIds : ~attempt_ok(provider, throwOnGet)]

\* clearToken: removeItem on every provider.
tokenStorage_clearToken ==
  [provider \in ProviderIds |->
     IF attempt_ok(provider, throwOnRemove) THEN "none" ELSE storages[provider]]

NoStatus ==
  [ok |-> FALSE, storage |-> "none", fallbackUsed |-> FALSE, token |-> "none",
   hadErrors |-> FALSE]

\* A window with nothing stored; a storage that is blocked throws from the
\* start.
StoreInit ==
  /\ UpdaterInit
  /\ Resting("store")
  /\ storages = [provider \in ProviderIds |-> "none"]
  /\ throwOnSet \in SUBSET ProviderIds
  /\ throwOnGet \in SUBSET throwOnSet
  /\ throwOnRemove \in SUBSET throwOnSet
  /\ written = "none"
  /\ writeStatus = NoStatus
  /\ readStatus = NoStatus
  /\ writes = 0
  /\ store_pc = "ready"

PersistToken ==
  /\ store_pc = "ready"
  /\ writes < MaxWrites
  /\ \E token \in Tokens :
       /\ storages' = tokenStorage_persistToken(token).storages
       /\ writeStatus' = tokenStorage_persistToken(token).status
       /\ written' = token
  /\ writes' = writes + 1
  /\ store_pc' = "written"
  /\ UNCHANGED <<beside_store, throwOnSet, throwOnGet, throwOnRemove, readStatus>>

ReadToken ==
  /\ store_pc = "written"
  /\ readStatus' = tokenStorage_readToken
  /\ store_pc' = "read"
  /\ UNCHANGED <<beside_store, storages, throwOnSet, throwOnGet, throwOnRemove, written,
                 writeStatus, writes>>

\* The page goes on: the next call is another persistToken or a clearToken.
ClearStored ==
  /\ store_pc = "read"
  /\ \E clear \in BOOLEAN :
       storages' = IF clear THEN tokenStorage_clearToken ELSE storages
  /\ store_pc' = "ready"
  /\ UNCHANGED <<beside_store, throwOnSet, throwOnGet, throwOnRemove, written,
                 writeStatus, readStatus, writes>>

\* The quota of a storage is used up by other data of the origin: its
\* setItem throws QuotaExceededError from now on, getItem and removeItem
\* still work.
QuotaExceeded ==
  /\ store_pc = "ready"
  /\ \E provider \in ProviderIds \ throwOnSet :
       throwOnSet' = throwOnSet \cup {provider}
  /\ UNCHANGED <<beside_store, storages, throwOnGet, throwOnRemove, written,
                 writeStatus, readStatus, writes, store_pc>>

NextStore == PersistToken \/ ReadToken \/ ClearStored \/ QuotaExceeded

SpecStore == StoreInit /\ [][NextStore]_vars


\* ---------------------------------------------------------------------
\* The schedule form of the panel (app.js): the initial data load disables
\* its controls, updateScheduleModeUI sets the two inputs by the mode
\* ---------------------------------------------------------------------
MaxFormLogins == 2

scheduleModeSelect == "scheduleModeSelect"
scheduleExpressionInput == "scheduleExpressionInput"
scheduleDatetimeInput == "scheduleDatetimeInput"

\* The controls querySelectorAll finds in scheduleForm.
ScheduleControls == {scheduleModeSelect, scheduleExpressionInput, scheduleDatetimeInput}

Modes == {"cron", "once"}

\* Schedules the server answers with, after normalizeScheduleData.
ScheduleData ==
  {[mode |-> "cron", expression |-> "0 4 * * *", datetime |-> ""],
   [mode |-> "once", expression |-> "", datetime |-> "2030-05-10T12:30"]}

\* What a user types into an input.
InputValues == {"", "0 4 * * *", "2030-05-10T12:30"}

\* A control of the page as the document gives it: enabled, with a dataset
\* and no mark of the initial load.
FreshControl(value) ==
  [disabled |-> FALSE, value |-> value, has_dataset |-> TRUE,
   initialLoadDisabled |-> FALSE, initialLoadWasDisabled |-> "none",
   aria_disabled |-> FALSE]

\* toggleInitialLoadOnControl that enables every control it releases.
toggleInitialLoadOnControl_enables(control, isLoading) ==
  IF isLoading
  THEN [control EXCEPT !.initialLoadDisabled = TRUE, !.disabled = TRUE,
                       !.aria_disabled = TRUE]
  ELSE [control EXCEPT !.initialLoadDisabled = FALSE, !.disabled = FALSE,
                       !.aria_disabled = FALSE]

\* toggleInitialLoadOnControl(control, isLoading), lines 90-126.
toggleInitialLoadOnControl(control, isLoading) ==
  IF ~control.has_dataset
  THEN IF isLoading /\ ~control.disabled
       THEN [control EXCEPT !.disabled = TRUE]
       ELSE control
  ELSE IF isLoading
  THEN IF control.initialLoadDisabled
       THEN [control EXCEPT !.disabled = TRUE, !.aria_disabled = TRUE]
       ELSE [control EXCEPT !.initialLoadDisabled = TRUE,
                            !.initialLoadWasDisabled =
                               IF control.disabled THEN "true" ELSE "false",
                            !.aria_disabled = TRUE,
                            !.disabled = TRUE]
  ELSE IF control.initialLoadDisabled
  THEN LET wasDisabled == control.initialLoadWasDisabled = "true"
       IN  [control EXCEPT !.initialLoadDisabled = FALSE,
                            !.initialLoadWasDisabled = "none",
                            !.aria_disabled = wasDisabled,
                            !.disabled = IF wasDisabled THEN @ ELSE FALSE]
  ELSE control

\* setInitialDataLoading(isLoading), lines 294-314: the controls afterwards.
setInitialDataLoading(ctrls, loading, isLoading) ==
  IF loading = isLoading THEN ctrls
  ELSE [c \in ScheduleControls |-> toggleInitialLoadOnControl(ctrls[c], isLoading)]

\* updateScheduleModeUI(mode), lines 920-943.
updateScheduleModeUI(ctrls, mode) ==
  LET normalized == IF mode = "once" THEN "once" ELSE "cron"
  IN  [ctrls EXCEPT ![scheduleModeSelect].value = normalized,
                    ![scheduleExpressionInput].disabled = normalized # "cron",
                    ![scheduleDatetimeInput].disabled = normalized # "once"]

\* populateSchedule(data), lines 945-959.
populateSchedule(ctrls, data) ==
  [updateScheduleModeUI(ctrls, data.mode) EXCEPT
     ![scheduleExpressionInput].value = data.expression,
     ![scheduleDatetimeInput].value = data.datetime]

\* scheduleForm.reset(): the values the document gave the controls.
form_reset(ctrls) ==
  [ctrls EXCEPT ![scheduleModeSelect].value = "cron",
                ![scheduleExpressionInput].value = "",
                ![scheduleDatetimeInput].value = ""]

\* resetPortalState, lines 322-385, as far as the schedule form goes.
resetPortalState(ctrls) ==
  [form_reset(ctrls) EXCEPT ![scheduleExpressionInput].disabled = FALSE,
                            ![scheduleDatetimeInput].disabled = TRUE]

\* setAuthState(false), lines 387-394: the controls afterwards.
setAuthState_false(ctrls, loading) ==
  resetPortalState(setInitialDataLoading(ctrls, loading, FALSE))

\* The page after the script ran: line 1691 has applied the mode of the
\* select, and the login banner is up.
FormInit ==
  /\ UpdaterInit
  /\ Resting("form")
  /\ controls = updateScheduleModeUI(
                  [c \in ScheduleControls |->
                     FreshControl(IF c = scheduleModeSelect THEN "cron" ELSE "")],
                  "cron")
  /\ isInitialDataLoading = FALSE
  /\ lastScheduleSnapshot = "none"
  /\ form_authenticated = FALSE
  /\ form_logins = 0
  /\ form_pc = "page"

\* handleSuccessfulLogin up to the await of the three loads, lines 1562-1581.
HandleSuccessfulLogin ==
  /\ form_pc = "page"
  /\ form_logins < MaxFormLogins
  /\ controls' = setInitialDataLoading(controls, isInitialDataLoading, TRUE)
  /\ isInitialDataLoading' = TRUE
  /\ form_authenticated' = TRUE
  /\ form_logins' = form_logins + 1
  /\ form_pc' = "loading"
  /\ UNCHANGED <<beside_form, lastScheduleSnapshot>>

\* The answer to the request of fetchSchedule, lines 1006-1021: a schedule,
\* a failure, or the 401 that authorizedFetch hands to handleUnauthorized.
ScheduleAnswered ==
  /\ form_pc = "loading"
  /\ \/ \E data \in ScheduleData :
          /\ controls' = populateSchedule(controls, data)
          /\ lastScheduleSnapshot' = data.mode
          /\ UNCHANGED <<isInitialDataLoading, form_authenticated>>
     \/ UNCHANGED <<controls, lastScheduleSnapshot, isInitialDataLoading,
                    form_authenticated>>
     \/ /\ controls' = setAuthState_false(controls, isInitialDataLoading)
        /\ isInitialDataLoading' = FALSE
        /\ lastScheduleSnapshot' = "none"
        /\ form_authenticated' = FALSE
  /\ form_pc' = "answered"
  /\ UNCHANGED <<beside_form, form_logins>>

\* The finally of handleSuccessfulLogin, lines 1583-1585.
InitialLoadDone ==
  /\ form_pc = "answered"
  /\ controls' = setInitialDataLoading(controls, isInitialDataLoading, FALSE)
  /\ isInitialDataLoading' = FALSE
  /\ form_pc' = IF form_authenticated THEN "ready" ELSE "page"
  /\ UNCHANGED <<beside_form, lastScheduleSnapshot, form_authenticated, form_logins>>

\* The change listener of the select, lines 1693-1697.
ModeChanged ==
  /\ form_pc = "ready"
  /\ ~controls[scheduleModeSelect].disabled
  /\ \E mode \in Modes : controls' = updateScheduleModeUI(controls, mode)
  /\ UNCHANGED <<beside_form, isInitialDataLoading, lastScheduleSnapshot,
                 form_authenticated, form_logins, form_pc>>

\* The user types into an input that is enabled.
InputEdited ==
  /\ form_pc = "ready"
  /\ \E c \in {scheduleExpressionInput, scheduleDatetimeInput}, value \in InputValues :
       /\ ~controls[c].disabled
       /\ controls' = [controls EXCEPT ![c].value = value]
  /\ UNCHANGED <<beside_form, isInitialDataLoading, lastScheduleSnapshot,
                 form_authenticated, form_logins, form_pc>>

\* resetSchedule, the click listener of the reset button, lines 1096-1107.
ResetScheduleForm ==
  /\ form_pc = "ready"
  /\ controls' =
       IF lastScheduleSnapshot = "none"
       THEN updateScheduleModeUI(form_reset(controls),
                                 form_reset(controls)[scheduleModeSelect].value)
       ELSE populateSchedule(controls,
              CHOOSE data \in ScheduleData : data.mode = lastScheduleSnapshot)
  /\ UNCHANGED <<beside_form, isInitialDataLoading, lastScheduleSnapshot,
                 form_authenticated, form_logins, form_pc>>

\* clearSession behind the logout button: showLoginPrompt, setAuthState(false).
FormLogout ==
  /\ form_pc = "ready"
  /\ controls' = setAuthState_false(controls, isInitialDataLoading)
  /\ isInitialDataLoading' = FALSE
  /\ lastScheduleSnapshot' = "none"
  /\ form_authenticated' = FALSE
  /\ form_pc' = "page"
  /\ UNCHANGED <<beside_form, form_logins>>

NextForm ==
  \/ HandleSuccessfulLogin \/ ScheduleAnswered \/ InitialLoadDone
  \/ ModeChanged \/ InputEdited \/ ResetScheduleForm \/ FormLogout

SpecForm == FormInit /\ [][NextForm]_vars


\* ---------------------------------------------------------------------
\* The session of the panel (app.js): verifyToken, handleSuccessfulLogin
\* with its three loads, handleUnauthorized and clearSession. Each handler
\* runs to its next await in one step.
\* ---------------------------------------------------------------------
MaxSessions == 2

Sections == {"config", "schedule", "logs"}

\* Answers of auth-check and of the three resources.
AuthCheckStatuses == {"204", "401", "500"}
LoadStatuses == {"200", "401", "500"}

NoVerification == [token |-> "none", persist |-> FALSE, origin |-> "none"]

\* verifyToken, lines 467-495: anything but 401 and a status that is not ok
\* reaches auth.setToken.
verified_unless_401(status) == status # "401"

verified(status) == status \notin {"401", "500"}

\* handleUnauthorized, lines 515-516, clears the storage too.
forgetPersisted_always(reusableToken) == TRUE

\* handleUnauthorized, lines 515-516: auth.clearToken({ forgetPersisted:
\* !reusableToken }).
forgetPersisted(reusableToken) == ~reusableToken

\* isLatest of the logs request manager, for the one fetchLogs a login
\* starts: the request of the latest login is the latest.
renders(request) == request.section # "logs" \/ request.session = session

\* The request was issued by a session that is over.
IsLate(request) == ~authenticated \/ request.session < session

\* The script has run: a token found in the storage is being verified
\* (lines 1713-1715), otherwise the login prompt is up.
PortalInit ==
  /\ UpdaterInit
  /\ Resting("portal")
  /\ p_memoryToken = "none"
  /\ p_localStorage \in Tokens \cup {"none"}
  /\ tokenInput = ""
  /\ rememberCheckbox = FALSE
  /\ authenticated = FALSE
  /\ verifying = IF p_localStorage = "none" THEN NoVerification
                 ELSE [token |-> p_localStorage, persist |-> TRUE, origin |-> "stored"]
  /\ in_flight = {}
  /\ populated = {}
  /\ passed = {}
  /\ late_populated = FALSE
  /\ session = 0

\* The submit listener of the login form up to the await of verifyToken,
\* lines 1631-1642; the user has typed a token or left the one in the input.
LoginSubmitted ==
  /\ ~authenticated
  /\ verifying = NoVerification
  /\ session < MaxSessions
  /\ \E value \in (Tokens \cup {tokenInput}) \ {""}, checked \in BOOLEAN :
       /\ tokenInput' = value
       /\ rememberCheckbox' = checked
       /\ verifying' = [token |-> value, persist |-> checked, origin |-> "form"]
  /\ UNCHANGED <<beside_portal, p_memoryToken, p_localStorage, authenticated, in_flight,
                 populated, passed, late_populated, session>>

\* The answer of auth-check: the rest of verifyToken, then either
\* handleSuccessfulLogin up to its await (lines 1562-1581) or the catch of
\* the caller (lines 1644-1665 for the form, 1723-1752 for the stored token).
VerifyTokenAnswered ==
  /\ verifying # NoVerification
  /\ \E status \in AuthCheckStatuses :
       IF verified(status)
       THEN /\ p_memoryToken' = verifying.token
            /\ p_localStorage' = IF verifying.persist THEN verifying.token ELSE "none"
            /\ passed' = IF status = "204" THEN passed \cup {verifying.token} ELSE passed
            /\ tokenInput' = ""
            /\ rememberCheckbox' = FALSE
            /\ authenticated' = TRUE
            /\ session' = session + 1
            /\ in_flight' = in_flight \cup
                              {[section |-> s, session |-> session + 1] : s \in Sections}
            /\ UNCHANGED populated
       ELSE /\ IF verifying.origin = "stored"
               THEN /\ p_localStorage' = IF status = "401" THEN "none" ELSE p_localStorage
                    /\ p_memoryToken' = IF status = "401" THEN "none" ELSE p_memoryToken
                    /\ authenticated' = FALSE
                    /\ populated' = {}
               ELSE UNCHANGED <<p_localStorage, p_memoryToken, authenticated, populated>>
            /\ UNCHANGED <<tokenInput, rememberCheckbox, passed, session, in_flight>>
  /\ verifying' = NoVerification
  /\ UNCHANGED <<beside_portal, late_populated>>

\* The answer to one of the requests of fetchConfig, fetchSchedule and
\* fetchLogs: populate, or handleUnauthorized (lines 505-537) through
\* authorizedFetch (lines 565-577), or nothing but a message.
RequestAnswered ==
  /\ \E request \in in_flight, status \in LoadStatuses :
       /\ in_flight' = in_flight \ {request}
       /\ IF status = "200"
          THEN /\ populated' = IF renders(request)
                               THEN populated \cup {request.section} ELSE populated
               /\ late_populated' = (late_populated \/ (renders(request) /\ IsLate(request)))
               /\ UNCHANGED <<p_memoryToken, p_localStorage, tokenInput, rememberCheckbox,
                              authenticated>>
          ELSE IF status = "401"
          THEN LET reusableToken == p_localStorage # "none"
               IN  /\ p_memoryToken' = "none"
                   /\ p_localStorage' = IF forgetPersisted(reusableToken)
                                        THEN "none" ELSE p_localStorage
                   /\ tokenInput' = IF reusableToken THEN p_localStorage ELSE ""
                   /\ rememberCheckbox' = reusableToken
                   /\ authenticated' = FALSE
                   /\ populated' = {}
                   /\ UNCHANGED late_populated
          ELSE UNCHANGED <<p_memoryToken, p_localStorage, tokenInput, rememberCheckbox,
                           authenticated, populated, late_populated>>
  /\ UNCHANGED <<beside_portal, verifying, passed, session>>

\* clearSession behind the logout and the forget-token buttons, lines
\* 1669-1690.
SessionCleared ==
  /\ authenticated
  /\ p_memoryToken' = "none"
  /\ p_localStorage' = "none"
  /\ tokenInput' = ""
  /\ rememberCheckbox' = FALSE
  /\ authenticated' = FALSE
  /\ populated' = {}
  /\ UNCHANGED <<beside_portal, verifying, in_flight, passed, late_populated, session>>

NextPortal == LoginSubmitted \/ VerifyTokenAnswered \/ RequestAnswered \/ SessionCleared

SpecPortal == PortalInit /\ [][NextPortal]_vars


\* ---------------------------------------------------------------------
\* Vocabulary of the properties
\* ---------------------------------------------------------------------
WarnTags == {"warn_snapshot_before", "warn_pull", "warn_up", "warn_snapshot_after",
             "warn_healthcheck"}

PostLoopPcs == {"retention", "prune", "count_names", "summary", "attachments",
                "send_email", "final"}

ProjectPcs == {"snapshot_before", "pull", "up", "snapshot_after", "classify",
               "healthcheck"}

\* The for loop of line 445 was entered and has run through PROJECT_DIRS.
LoopFinished ==
  /\ Len(PROJECT_DIRS) > 0
  /\ pc \in PostLoopPcs \cup {"exited"}

Processed == DOMAIN plog

IsChanged(i) == "ok_updated" \in plog[i]
IsUnchanged(i) == "info_unchanged" \in plog[i]
IsFailed(i) == plog[i] \cap WarnTags # {}
HealthFailed(i) == "warn_healthcheck" \in plog[i]

Occurrences(list, key) == Cardinality({j \in 1..Len(list) : list[j] = key})

MutatingCmds == {<<c, i>> : c \in {"pull", "up", "prune"}, i \in 0..(MaxProjects + 1)}

\* ---------------------------------------------------------------------
\* Properties
\* ---------------------------------------------------------------------

\* C1: a run that got the lock, went through the project loop and met no
\* failing maintenance tool exits with status 2 if at least one project
\* was recorded as failed, and with status 0 otherwise.
C1_ExitStatus ==
  (pc = "exited" /\ LoopFinished /\ maint_failed = {})
    => exit_status = (IF Len(failed_projects) > 0 THEN 2 ELSE 0)

\* C2 (as claimed): once the loop is over every processed project has
\* exactly one classification among changed, unchanged and failed, so the
\* three counts add up to the number of processed projects.
C2_ExactlyOne ==
  LoopFinished =>
    /\ \A i \in Processed :
         Cardinality({c \in {"changed", "unchanged", "failed"} :
                        \/ c = "changed" /\ IsChanged(i)
                        \/ c = "unchanged" /\ IsUnchanged(i)
                        \/ c = "failed" /\ IsFailed(i)}) = 1
    /\ Len(changed_projects) + Cardinality({i \in Processed : IsUnchanged(i)})
         + Len(failed_projects) = Len(project_order)

\* C2 (amended): once the loop is over every processed project is changed,
\* unchanged or failed; changed and unchanged exclude each other; failed
\* comes together with changed or unchanged exactly for the projects whose
\* healthcheck failed; so the three counts add up to the number of
\* processed projects plus the number of failed healthchecks.
C2_Classified ==
  LoopFinished =>
    /\ \A i \in 1..Len(PROJECT_DIRS) : i \in Processed <=> get_compose_file(Key(i)) # ""
    /\ \A i \in Processed :
         /\ IsChanged(i) \/ IsUnchanged(i) \/ IsFailed(i)
         /\ ~(IsChanged(i) /\ IsUnchanged(i))
         /\ (IsFailed(i) /\ (IsChanged(i) \/ IsUnchanged(i))) <=> HealthFailed(i)
    /\ Len(changed_projects) = Cardinality({i \in Processed : IsChanged(i)})
    /\ Len(failed_projects) = Cardinality({i \in Processed : IsFailed(i)})
    /\ Len(project_order) = Cardinality(Processed)
    /\ Len(changed_projects) + Cardinality({i \in Processed : IsUnchanged(i)})
         + Len(failed_projects)
       = Len(project_order) + Cardinality({i \in Processed : HealthFailed(i)})

C2_Witness ==
  /\ pc = "retention"
  /\ Len(project_order) = 2
  /\ IsChanged(1) /\ HealthFailed(1)
  /\ IsUnchanged(2) /\ ~IsFailed(2)

\* C3 (as claimed): a project whose images changed and whose healthcheck
\* then failed is recorded as failed and is not in the changed list.
C3_Excluded ==
  \A i \in diffed :
    (i \in Processed /\ HealthFailed(i)) =>
      /\ Key(i) \in Range(failed_projects)
      /\ Key(i) \notin Range(changed_projects)

\* C3 (amended): a project whose images changed and whose healthcheck then
\* failed is recorded as failed and stays in the changed list as well: it
\* is in failed_projects and in changed_projects, the lists the counts and
\* the labels of the summary are taken from.
C3_BothRecorded ==
  \A i \in diffed :
    (i \in Processed /\ HealthFailed(i)) =>
      /\ IsChanged(i)
      /\ Occurrences(failed_projects, Key(i))
           = Cardinality({j \in Processed : Key(j) = Key(i) /\ IsFailed(j)})
      /\ Occurrences(changed_projects, Key(i))
           = Cardinality({j \in Processed : Key(j) = Key(i) /\ j \in diffed /\ j < idx})

C3_Witness ==
  /\ pc = "prune"
  /\ \E i \in diffed : HealthFailed(i) /\ Key(i) \in Range(changed_projects)
                       /\ Key(i) \in Range(failed_projects)

\* C4: when the invocation reaches flock -n 9 while the other invocation
\* holds the lock, its next step is exit 0, with no external command run,
\* no project recorded, no per-project log and no mail; and nothing
\* happens after an exit.
C4_LockHeldSkips ==
  [][ /\ (pc = "flock" /\ lock = "rival" /\ pc' # pc) =>
           /\ pc' = "exited"
           /\ exit_status' = 0
           /\ executed' = {} /\ RUN_CMDS' = <<>> /\ dry_logged' = {}
           /\ plog' = <<>> /\ project_order' = <<>> /\ PROJECT_DIRS' = <<>>
           /\ lock' = "rival"
      /\ pc = "exited" =>
           UNCHANGED <<pc, exit_status, executed, RUN_CMDS, dry_logged, plog,
                       project_order, PROJECT_DIRS>>
    ]_vars

C4_Witness ==
  /\ pc = "exited"
  /\ exit_status = 0
  /\ lock = "rival"
  /\ rival = "running"
  /\ executed = {}

\* C5: the two invocations are never both past their flock: whoever is
\* between its flock and its exit holds the lock, from the flock to the
\* exit on every path.
C5_NoOverlap ==
  /\ ~(rival = "running" /\ pc \in {"detect", "discover", "loop"} \cup ProjectPcs \cup PostLoopPcs)
  /\ pc \in {"detect", "discover", "loop"} \cup ProjectPcs \cup PostLoopPcs => lock = "self"
  /\ rival = "running" => lock = "rival"
  /\ pc \in {"open_lock", "flock", "exited"} => lock # "self"

C5_Witness ==
  /\ pc \in ProjectPcs
  /\ lock = "self"
  /\ rival = "gone"

\* C6: a failed step of one project does not end the run: when the loop is
\* left, every entry of PROJECT_DIRS with a Compose file has been
\* processed and classified, whatever happened to the entries before it.
C6_LoopContinues ==
  (Len(PROJECT_DIRS) > 0 /\ pc \notin {"loop"} \cup ProjectPcs) =>
    \A i \in 1..Len(PROJECT_DIRS) :
      get_compose_file(Key(i)) # "" =>
        /\ i \in Processed
        /\ IsChanged(i) \/ IsUnchanged(i) \/ IsFailed(i)

C6_Witness ==
  /\ pc = "retention"
  /\ Len(project_order) = 2
  /\ "warn_pull" \in plog[1]
  /\ IsChanged(2)

\* C7: once the tool of a step has failed for the current project, no
\* later step of that project is pending or run.
C7_FailedStepEndsProject ==
  step_failed # "none" => pc \notin ProjectPcs

\* C8: every project with a container that fails the health requirement is
\* in the failed list, with the healthcheck warning in its log, whether it
\* was recorded as changed or as unchanged.
C8_SickIsFailed ==
  \A i \in sick :
    /\ HealthFailed(i)
    /\ Key(i) \in Range(failed_projects)
    /\ Len(failed_projects) = Cardinality({j \in Processed : IsFailed(j)})

C8_Witness ==
  /\ pc = "retention"
  /\ \E i \in sick : IsChanged(i)
  /\ \E i \in sick : IsUnchanged(i)

\* C9: under DRY_RUN no pull, up or prune is executed, and every command
\* held back is announced in the output.
C9_DryRunLogged ==
  DRY_RUN =>
    /\ executed \cap MutatingCmds = {}
    /\ suppressed \subseteq dry_logged

\* C10: when a maintenance tool (log retention, prune, mail) has failed,
\* the run still ends with the status decided by the failed projects only
\* (stated for the runs that found no Compose file, the ones that get as
\* far as the mail).
C10_MaintenanceSwallowed ==
  (pc = "exited" /\ maint_failed # {} /\ project_order = <<>>)
    => exit_status = (IF Len(failed_projects) > 0 THEN 2 ELSE 0)

\* C11: an exit that happens once the project loop has been entered carries
\* status 0 or the project-failure status 2; any other status belongs to
\* the exits before the loop.
C11_ExitAfterLoop ==
  (pc = "exited" /\ Len(PROJECT_DIRS) > 0) => exit_status \in {0, 2}

\* C12: a run whose discovery yields no directory holding a recognised
\* Compose file ends with a non-zero status.
C12_NoProjectIsFatal ==
  (/\ pc = "exited"
   /\ Len(PROJECT_DIRS) > 0
   /\ \A i \in 1..Len(PROJECT_DIRS) : get_compose_file(Key(i)) = "")
    => exit_status # 0

\* C13: when the listing of the before-snapshot has failed for the project
\* in hand, the failure is in its log, the project is in the failed list
\* and neither pull nor up has been handed to run for it.
C13_ListingFailureFailsProject ==
  (step_failed = "snapshot_before" /\ idx \in Processed) =>
    /\ "warn_snapshot_before" \in plog[idx]
    /\ Key(idx) \in Range(failed_projects)
    /\ <<"pull", idx>> \notin Range(RUN_CMDS)
    /\ <<"up", idx>> \notin Range(RUN_CMDS)

\* Two snapshots are the same when they list the same services with the
\* same comparison keys.
SameSnapshots(b, a) == DOMAIN b = DOMAIN a /\ \A k \in DOMAIN a : b[k] = a[k]

\* C14: the classification step sets `changed` exactly when the before and
\* the after snapshot differ for some service, a service missing from the
\* before-snapshot being a difference; identical snapshots give unchanged.
C14_ChangedIffDiffers ==
  [][pc = "classify" => (changed' <=> ~SameSnapshots(before, after))]_vars

\* Position of the first occurrence of x in list.
IndexOf(list, x) == CHOOSE j \in 1..Len(list) : list[j] = x /\ \A h \in 1..(j - 1) : list[h] # x

\* Project i has left its pull step behind.
PastPull(i) ==
  /\ i \in Processed
  /\ "warn_snapshot_before" \notin plog[i]
  /\ i < idx \/ pc \in {"up", "snapshot_after", "classify", "healthcheck"}

\* C15: for every project past its pull step, the explicit pull was handed
\* to run (and, outside DRY_RUN, executed) exactly when PULL_POLICY is not
\* `never` and it is not `missing` with a tool that supports --pull; when
\* it was, it comes before the up of the project.
C15_ExplicitPull ==
  \A i \in 1..Len(PROJECT_DIRS) :
    PastPull(i) =>
      LET wanted == /\ PULL_POLICY # "never"
                    /\ ~(PULL_POLICY = "missing" /\ COMPOSE_SUPPORTS_PULL_POLICY)
      IN  /\ <<"pull", i>> \in Range(RUN_CMDS) <=> wanted
          /\ ~DRY_RUN => (<<"pull", i>> \in executed <=> wanted)
          /\ (wanted /\ <<"up", i>> \in Range(RUN_CMDS)) =>
                IndexOf(RUN_CMDS, <<"pull", i>>) < IndexOf(RUN_CMDS, <<"up", i>>)

C15_Witness ==
  /\ PULL_POLICY = "missing"
  /\ ~COMPOSE_SUPPORTS_PULL_POLICY
  /\ ~DRY_RUN
  /\ <<"pull", 1>> \in executed
  /\ <<"up", 1>> \in executed

HasCompose(d) == get_compose_file(d) # ""

\* Number of entries of PROJECT_DIRS the loop has taken up so far.
Visited == IF idx = 0 THEN 0 ELSE IF pc \in ProjectPcs THEN idx ELSE idx - 1

\* The projects of a run are the visited entries of PROJECT_DIRS that hold
\* a Compose file, in the order of PROJECT_DIRS, whatever DRY_RUN is.
SameDiscovery ==
  project_order = SelectSeq(SubSeq(PROJECT_DIRS, 1, Visited), HasCompose)

MailCmds == {<<"mail", 0>>}

\* C16 (as claimed): DRY_RUN leaves the discovery as it is and makes no
\* difference but this one: the mutating commands (pull, up, prune) are
\* held back; without DRY_RUN nothing is held back.
C16_OnlyMutationsDiffer ==
  /\ SameDiscovery
  /\ suppressed \subseteq MutatingCmds
  /\ ~DRY_RUN => suppressed = {}

\* C16 (amended): DRY_RUN leaves the discovery as it is and makes no
\* difference but this one: pull, up, prune and the mail transport are
\* held back, none of them is executed, and the snapshots of every project
\* taken up are still executed; without DRY_RUN nothing is held back or
\* announced.
C16_OnlyHeldBackDiffer ==
  /\ SameDiscovery
  /\ suppressed \subseteq MutatingCmds \cup MailCmds
  /\ DRY_RUN => executed \cap (MutatingCmds \cup MailCmds) = {}
  /\ ~DRY_RUN => suppressed = {} /\ dry_logged = {}
  /\ \A i \in Processed : i < idx => <<"snapshot_before", i>> \in executed

C16_Witness ==
  /\ DRY_RUN
  /\ Len(project_order) = 2
  /\ <<"pull", 1>> \in suppressed
  /\ <<"up", 1>> \in suppressed
  /\ <<"snapshot_after", 1>> \in executed
  /\ <<"up", 1>> \notin executed

\* C17: no directory is taken up twice in a run, the projects taken up are
\* the listed directories with a Compose file in the order of the list,
\* and every step run so far belongs to a project taken up so far and not
\* to a later one: the projects are handled one after the other.
C17_OnceInOrder ==
  /\ \A i, j \in 1..Len(project_order) : project_order[i] = project_order[j] => i = j
  /\ SameDiscovery
  /\ \A e \in executed \cup Range(RUN_CMDS) : e[2] <= Visited
  /\ \A i \in Processed : i < idx =>
        \/ IsChanged(i) \/ IsUnchanged(i) \/ IsFailed(i)

\* Step c of project i was run, or handed to run.
Ran(c, i) == <<c, i>> \in executed \/ <<c, i>> \in Range(RUN_CMDS)

\* C18: the steps of a project come in the order before-snapshot, pull
\* (when wanted), up, after-snapshot, healthcheck and record: a pull or an
\* up was never run without the before-snapshot taken, an after-snapshot
\* never without an up that succeeded, a healthcheck never without the
\* after-snapshot, and a changed/unchanged record never without the
\* healthcheck.
C18_StepOrder ==
  \A i \in 1..Len(PROJECT_DIRS) :
    /\ Ran("pull", i) => <<"snapshot_before", i>> \in executed
    /\ Ran("up", i) =>
          /\ <<"snapshot_before", i>> \in executed
          /\ "warn_pull" \notin plog[i]
          /\ Ran("pull", i) \/ "info_skip_pull" \in plog[i]
          /\ Ran("pull", i) =>
                IndexOf(RUN_CMDS, <<"pull", i>>) < IndexOf(RUN_CMDS, <<"up", i>>)
    /\ <<"snapshot_after", i>> \in executed => Ran("up", i) /\ "warn_up" \notin plog[i]
    /\ <<"healthcheck", i>> \in executed =>
          /\ <<"snapshot_after", i>> \in executed
          /\ "warn_snapshot_after" \notin plog[i]
    /\ (i \in Processed /\ (IsChanged(i) \/ IsUnchanged(i))) =>
          <<"healthcheck", i>> \in executed

C18_Witness ==
  /\ pc = "retention"
  /\ 1 \in Processed
  /\ <<"pull", 1>> \in executed
  /\ <<"up", 1>> \in executed
  /\ <<"healthcheck", 1>> \in executed
  /\ IsChanged(1)
  /\ 2 \in Processed
  /\ "warn_up" \in plog[2]

\* The log named for each of the given project keys.
LogsOf(keys) == {project_logs[k] : k \in keys \cap DOMAIN project_logs}

\* C19: when a run that went through the loop has ended, the attached logs
\* are those of the policy: none for `never`, one per project taken up
\* for `always`, and for `changes` the logs of the changed and the failed
\* projects, each once.
C19_AttachmentsByPolicy ==
  (pc = "exited" /\ LoopFinished) =>
    /\ ATTACH_LOGS_ON = "never" => attachments = <<>>
    /\ ATTACH_LOGS_ON = "always" =>
          /\ Len(attachments) = Len(project_order)
          /\ Range(attachments) = Range(proj_logs)
    /\ ATTACH_LOGS_ON = "changes" =>
          /\ Range(attachments) = LogsOf(Range(changed_projects) \cup Range(failed_projects))
          /\ \A i, j \in 1..Len(attachments) : attachments[i] = attachments[j] => i = j

\* C20: every project taken up has exactly one log file, whatever became
\* of it, and no two passes of the loop write to the same log file.
C20_OneLogEach ==
  /\ Len(proj_logs) = Len(project_order)
  /\ \A i, j \in 1..Len(proj_logs) : proj_logs[i] = proj_logs[j] => i = j
  /\ \A k \in Range(project_order) :
        Cardinality({proj_logs[j] : j \in {h \in 1..Len(proj_logs) : project_order[h] = k}}) = 1

\* C21: a list file that is configured and cannot be read makes the run exit
\* with a non-zero status before any work on a project: no snapshot, no
\* pull, no up, no project log.
C21_UnreadableListStops ==
  list_unreadable =>
    /\ pc = "exited"
    /\ exit_status # 0
    /\ PROJECT_DIRS = <<>>
    /\ project_order = <<>>
    /\ RUN_CMDS = <<>>
    /\ plog = <<>>
    /\ proj_logs = <<>>
    /\ before = <<>>
    /\ after = <<>>

C21_Witness ==
  list_unreadable /\ pc = "exited" /\ "err_list_unreadable" \in main_out

\* C22: with a configuration file that is there and cannot be read the run
\* does not abort: it warns and goes on with the built-in defaults.
C22_UnreadableConfigProceeds ==
  [][(pc = "load_config" /\ conf_file' = "unreadable") =>
       /\ pc' = "open_lock"
       /\ "warn_no_conf" \in main_out'
       /\ DRY_RUN' = DefaultConf.DRY_RUN
       /\ PULL_POLICY' = DefaultConf.PULL_POLICY]_vars

\* Entries of PROJECT_DIRS the loop has left behind.
LeftBehind == {i \in 1..Len(PROJECT_DIRS) : i < idx \/ pc \in PostLoopPcs \cup {"exited"}}

ComposePresent(d) == {n \in Range(ComposeNames) : n \in FilesIn(d)}

\* C25: a directory is processed as a project only if it holds one of the
\* four Compose file names, and the file used is the first one present in
\* the order compose.yaml, compose.yml, docker-compose.yaml,
\* docker-compose.yml; a directory with none of them is passed over without
\* error: no classification, no failure, no project log.
C25_FirstComposeFile ==
  /\ \A i \in Processed :
       /\ i \in DOMAIN compose_files
       /\ compose_files[i] \in ComposePresent(PROJECT_DIRS[i])
       /\ \A h \in 1..(IndexOf(ComposeNames, compose_files[i]) - 1) :
            ComposeNames[h] \notin FilesIn(PROJECT_DIRS[i])
  /\ \A i \in LeftBehind :
       ComposePresent(PROJECT_DIRS[i]) = {} =>
         /\ i \notin Processed
         /\ i \notin DOMAIN compose_files
         /\ PROJECT_DIRS[i] \notin Range(project_order)
         /\ PROJECT_DIRS[i] \notin Range(changed_projects) \cup Range(failed_projects)
         /\ PROJECT_DIRS[i] \notin DOMAIN project_logs
         /\ \A k \in 1..Len(proj_logs) : proj_logs[k][3] # dir_hash(PROJECT_DIRS[i])
  /\ Len(proj_logs) = Cardinality(Processed)

C25_Witness ==
  /\ pc = "loop"
  /\ idx = 3
  /\ PROJECT_DIRS = <<"/srv/empty", "/srv/b/app">>
  /\ 2 \in Processed
  /\ compose_files[2] = "compose.yaml"
  /\ exit_status = "none"

\* The label the summary owes a project: its base name, with the hash of
\* its path when another project of the run has the same base name.
SharesName(key) ==
  \E other \in Range(project_order) : other # key /\ Basename(other) = Basename(key)

OwedLabel(key) ==
  IF SharesName(key) THEN <<Basename(key), dir_hash(key)>> ELSE <<Basename(key)>>

\* C26: in the summary of a run two projects with the same base name have
\* different labels, each with the hash of its path, and a project whose
\* base name is unique is labelled with the plain name.
C26_DistinctLabels ==
  (pc = "exited" /\ LoopFinished) =>
    /\ changed_project_labels =
         [i \in 1..Len(changed_projects) |-> OwedLabel(changed_projects[i])]
    /\ failed_project_labels =
         [i \in 1..Len(failed_projects) |-> OwedLabel(failed_projects[i])]

\* C23: in list mode the discovered directories are exactly, in the order
\* of the file, the trimmed lines that are neither blank nor comments; every
\* such line, the last one of the file included, gives exactly one entry.
EntryLines ==
  SelectSeq([i \in 1..Len(list_lines) |-> trim(list_lines[i])],
            LAMBDA t : t # <<>> /\ Head(t) # "#")

C23_EveryLineOnce == list_pc = "done" => listed_dirs = EntryLines

\* The HTML entity of a character the claim names, the character itself
\* otherwise.
Entity(c) ==
  IF c = "&" THEN Amp ELSE IF c = "<" THEN Lt ELSE IF c = ">" THEN Gt
  ELSE IF c = "\"" THEN Quot ELSE <<c>>

RECURSIVE Escaped(_)
Escaped(str) == IF str = <<>> THEN <<>> ELSE Entity(Head(str)) \o Escaped(Tail(str))

\* C27: a display name with <, >, & or " in it stands in the HTML summary
\* with these characters escaped and in the plain summary as it is.
C27_EscapedInHtmlOnly ==
  (text_pc = "done" /\ "'" \notin Range(changed_display)) =>
    /\ html_summary = Escaped(changed_display)
    /\ plain_summary = changed_display

\* A directory below BASE_DIR matches when its own name or the name of a
\* directory above it, below BASE_DIR, is one of the patterns.
MatchesPattern(segs) ==
  \E i \in 1..Len(segs), k \in 1..Len(EXCLUDE_PATTERNS) :
    EXCLUDE_PATTERNS[k] # <<>> /\ segs[i] = EXCLUDE_PATTERNS[k]

\* C24: in scan mode a directory below the base directory is left out of
\* the discovery if and only if it, or a directory above it below the base
\* directory, matches an exclude pattern as a path segment or by its exact
\* name; every other directory is enumerated.
C24_LeftOutIffMatched ==
  scan_pc = "done" =>
    \A segs \in Tree \ {<<>>} :
      (PathOf(BASE_DIR, segs) \notin Range(scanned_dirs)) <=> MatchesPattern(segs)

\* Requests started before the latest one.
Earlier == {r \in 1..Len(requests) : r < Len(requests)}

InFlight(r) == requests[r].outcome = "none"

\* C28 as stated: isLatest holds only of the request started last, the
\* controller of every earlier request has been aborted, and no answer of
\* an earlier request is shown over the latest selection.
C28_EarlierAborted ==
  /\ \A r \in 1..Len(requests) : (requests[r].id = currentId) => r = Len(requests)
  /\ \A r \in Earlier : requests[r].controller # 0 => requests[r].aborted
  /\ ~stale_rendered

\* C28 as the code has it: isLatest holds only of the request started
\* last, the controller of every earlier request that has not come to its
\* end has been aborted, and no answer of an earlier request is shown once
\* a later request has been started.
C28_EarlierInFlightAborted ==
  /\ \A r \in 1..Len(requests) : (requests[r].id = currentId) => r = Len(requests)
  /\ \A r \in Earlier :
       (requests[r].controller # 0 /\ InFlight(r)) => requests[r].aborted
  /\ ~stale_rendered
  /\ \A r \in Earlier :
       (requests[r].aborted /\ ~InFlight(r)) => rendered # r

C28_Witness ==
  /\ Len(requests) = 2
  /\ requests[1].aborted
  /\ requests[1].outcome = "ok"
  /\ requests[2].outcome = "ok"
  /\ rendered = 2

\* C29: a timed status message shown in a banner while the timer of an earlier
\* message of the banner is pending stays until its own timeout is over: the
\* banner is not hidden before the message in it has been shown for the
\* 2500 ms of its own timer.
C29_LatestStaysItsTime ==
  [][(~status_hidden /\ status_hidden') => hidden_at' >= shown_at + AUTO_HIDE_MS]_vars

\* C30: after a login that the server answers with 401 "missing
\* credentials" localStorage holds the submitted token when the remember
\* option was checked and no token otherwise; sessionStorage holds no token
\* in either case.
C30_TokenKeptByOption ==
  (login_pc = "form" /\ auth_response = "401 missing credentials" /\ local_works) =>
    /\ localStorage = (IF shouldPersist THEN submitted ELSE "none")
    /\ sessionStorage = "none"

\* Every step of project i before the healthcheck went through, and ps -q,
\* the listing step of the healthcheck, succeeded.
StepsSucceeded(i) ==
  /\ plog[i] \cap (WarnTags \ {"warn_healthcheck"}) = {}
  /\ ps_q[i] # "failed"

\* C39: a project whose steps all succeeded and none of whose containers
\* fails the health requirement is not recorded as failed, a project
\* without any container included.
C39_HealthyNeverFailed ==
  \A i \in DOMAIN ps_q :
    (StepsSucceeded(i) /\ i \notin sick) =>
      /\ ~IsFailed(i)
      /\ (\A j \in Processed : Key(j) = Key(i) => ~IsFailed(j))
            => Key(i) \notin Range(failed_projects)

\* The commands that delete or modify what was there before the run: the
\* find -delete of line 564 and the pull, up and prune.
DestructiveCmds == MutatingCmds \cup {<<"retention", 0>>}

\* C40: under DRY_RUN the run executes nothing that deletes or modifies a
\* file or a Docker resource that existed before it.
C40_DryRunTouchesNothing ==
  DRY_RUN => executed \cap DestructiveCmds = {}

\* C36: when the entrypoint hands over to the command, every file of the
\* defaults directory is in the configuration directory, files in
\* subdirectories included, and every file the configuration directory held
\* at the start is still there with the content it had.
C36_MissingDefaultsCopied ==
  sync_pc = "started" =>
    /\ \A p \in DEFAULT_CONFIG_DIR : p \in DOMAIN CONFIG_DIR
    /\ \A p \in DOMAIN config_before :
         p \in DOMAIN CONFIG_DIR /\ CONFIG_DIR[p] = config_before[p]

\* The session storage neither throws on any of its methods.
FallbackWorks ==
  Fallback \notin throwOnSet \cup throwOnGet \cup throwOnRemove

\* C33: when setItem of localStorage throws and sessionStorage works,
\* persistToken returns ok with fallbackUsed and storage sessionStorage,
\* sessionStorage holds the token, and the readToken that follows returns
\* that token with ok and fallbackUsed.
C33_FallbackKeepsToken ==
  (store_pc = "read" /\ Primary \in throwOnSet /\ FallbackWorks) =>
    /\ writeStatus.ok /\ writeStatus.fallbackUsed /\ writeStatus.storage = Fallback
    /\ storages[Fallback] = written
    /\ readStatus.ok /\ readStatus.fallbackUsed /\ readStatus.token = written

C38_InputsFollowMode ==
  (form_pc \in {"page", "ready"} /\ ~isInitialDataLoading) =>
    /\ controls[scheduleExpressionInput].disabled
         = (controls[scheduleModeSelect].value # "cron")
    /\ controls[scheduleDatetimeInput].disabled
         = (controls[scheduleModeSelect].value # "once")

Generic401OnPersisted ==
  /\ authenticated
  /\ p_localStorage # "none"
  /\ p_memoryToken = p_localStorage
  /\ in_flight' # in_flight
  /\ ~authenticated'

C32_AuthenticatedHoldsValidated ==
  authenticated => p_memoryToken \in passed

\* A second session is on, after auth-check accepted its token.
C32_Witness ==
  /\ authenticated
  /\ session = MaxSessions
  /\ p_memoryToken \in passed

\* C37: while the page is unauthenticated no section of the portal shows
\* loaded data, and no answer populates a section after the session that
\* issued its request is over.
C37_NoLatePopulation ==
  /\ ~authenticated => populated = {}
  /\ ~late_populated

====
